---- MODULE Spec2Model ----
(***************************************************************************)
(* data-grep backend: the grep service (single-flight run guard,           *)
(* cooperative stop protocol, paginated search loop, result store).        *)
(*                                                                         *)
(* The backend runs on one JavaScript event loop.  A step of the model is  *)
(* either a job of the event loop (an API call arriving, a host promise    *)
(* settling, the 100 ms poll timer firing) or one microtask (the           *)
(* continuation of an `await` whose promise has settled).  Jobs start only *)
(* when the microtask queue is empty; microtasks run in FIFO order.        *)
(*                                                                         *)
(* Three specifications: Spec (and FairSpec) has concurrent grepRequests   *)
(* and stopGrep calls with the default switches; DataSpec has one call at  *)
(* a time with every combination of the option switches; ExtractSpec       *)
(* applies extractMatches to a text, a pattern and a group list.           *)
(***************************************************************************)
EXTENDS Integers, Sequences, FiniteSets, TLC

(* ---------------------------- bounds ---------------------------------- *)
NumSearch == 2            \* grepRequests calls in flight at the same time
NumStop == 2              \* stopGrep calls in flight at the same time
MaxResultsBound == 2      \* largest maxResults option tried
SentArrayLimit == 2       \* stands for the 25000 of the matches event: the
                          \* number of matches sent after which an event
                          \* carries a count instead of the array

SearchIds == 1..NumSearch
StopIds == 1..NumStop

(* ------------------------- strings and values ------------------------- *)
\* A string is a sequence of UTF-16 code units.
Whitespace == {9, 10, 11, 12, 13, 32}

RECURSIVE TrimStart(_)
TrimStart(s) ==
  IF s = <<>> THEN s
  ELSE IF Head(s) \in Whitespace THEN TrimStart(Tail(s)) ELSE s

RECURSIVE TrimEnd(_)
TrimEnd(s) ==
  IF s = <<>> THEN s
  ELSE IF s[Len(s)] \in Whitespace THEN TrimEnd(SubSeq(s, 1, Len(s) - 1)) ELSE s

\* String.prototype.trim
Trim(s) == TrimEnd(TrimStart(s))

\* (mutant) the class tested is [^\x00-\x7E]
HasNonPrintable_high(s) == \E i \in 1..Len(s) : s[i] > 126

\* /[^\x20-\x7E]/.test(s)
HasNonPrintable(s) == \E i \in 1..Len(s) : s[i] < 32 \/ s[i] > 126

\* String.prototype.toUpperCase on ASCII letters
ToUpperCase(s) == [i \in 1..Len(s) |-> IF s[i] >= 97 /\ s[i] <= 122 THEN s[i] - 32 ELSE s[i]]

(* ------------------------- regular expressions ------------------------ *)
\* A pattern of the model is a sequence of parts; a part matches one code
\* unit of its set, may be optional (greedy `?`), and may be a capture group
\* (group > 0).  A part may also be a lookahead (?=...), which matches the
\* next code unit without consuming it.  A compiled RegExp is the parts with
\* a set of flags.
Part(set, group, optional) ==
  [set |-> set, group |-> group, optional |-> optional, ahead |-> FALSE]

\* the lookahead (?=(x)) with a capture group inside
Ahead(set, group) == [set |-> set, group |-> group, optional |-> FALSE, ahead |-> TRUE]

\* the sources tried:   (a)?(b)?c   and   (a)?   and   [ab](b)   and
\* a(?=(b))   and, under the name "ok",    ?[a-eA\x00 ]
Parts(source) ==
  CASE source = "(a)?(b)?c" ->
         << Part({97}, 1, TRUE), Part({98}, 2, TRUE), Part({99}, 0, FALSE) >>
    [] source = "(a)?" -> << Part({97}, 1, TRUE) >>
    [] source = "[ab](b)" -> << Part({97, 98}, 0, FALSE), Part({98}, 1, FALSE) >>
    [] source = "a(?=(b))" -> << Part({97}, 0, FALSE), Ahead({98}, 1) >>
    [] OTHER -> << Part({32}, 0, TRUE), Part({97, 98, 99, 100, 101, 65, 0, 32}, 0, FALSE) >>

\* new RegExp(pattern, flags) on a pattern string
RegExpOf(source, flags) == [parts |-> Parts(source), flags |-> flags]

\* new RegExp(regex, flags) on a RegExp object: the source of the object with
\* the flags given, which replace the flags of the object
RegExpFrom(regex, flags) == [parts |-> regex.parts, flags |-> flags]

\* Canonicalize of the ignoreCase flag on ASCII letters
Canonicalize(ch) == IF ch >= 97 /\ ch <= 122 THEN ch - 32 ELSE ch

CharMatches(ch, set, flags) ==
  IF "i" \in flags THEN \E x \in set : Canonicalize(x) = Canonicalize(ch)
  ELSE ch \in set

Undefined == [defined |-> FALSE, value |-> << >>]
Defined(v) == [defined |-> TRUE, value |-> v]
NoMatch == [ok |-> FALSE, end |-> 0, groups |-> << >>]

NumGroups(parts) ==
  IF parts = << >> THEN 0
  ELSE LET gs == {parts[i].group : i \in 1..Len(parts)}
       IN CHOOSE g \in gs : \A h \in gs : h <= g

\* the backtracking matcher: parts k.. of the pattern against the text from
\* the 0-based position p, with the captures made so far
RECURSIVE MatchFrom(_, _, _, _, _, _)
MatchFrom(parts, flags, text, k, p, caps) ==
  IF k > Len(parts) THEN [ok |-> TRUE, end |-> p, groups |-> caps]
  ELSE
    LET part == parts[k]
        skip == IF part.optional THEN MatchFrom(parts, flags, text, k + 1, p, caps)
                ELSE NoMatch
    IN
    IF p < Len(text) /\ CharMatches(text[p + 1], part.set, flags)
      THEN LET caps2 == IF part.group > 0
                          THEN [caps EXCEPT ![part.group] = Defined(<< text[p + 1] >>)]
                          ELSE caps
               taken == MatchFrom(parts, flags, text, k + 1,
                                  IF part.ahead THEN p ELSE p + 1, caps2)
           IN IF taken.ok THEN taken ELSE skip
      ELSE skip

\* one match object: index, match[0] and match[1..]
MatchObject(text, p, r) ==
  [index |-> p, whole |-> SubSeq(text, p + 1, r.end), groups |-> r.groups]

\* Array.from(text.matchAll(regex)) for a regex with the g flag: the matches
\* from position p on, left to right, an empty match advancing by one
RECURSIVE MatchAll(_, _, _)
MatchAll(regex, text, p) ==
  IF p > Len(text) THEN << >>
  ELSE
    LET r == MatchFrom(regex.parts, regex.flags, text, 1, p,
                       [g \in 1..NumGroups(regex.parts) |-> Undefined])
    IN IF r.ok
         THEN << MatchObject(text, p, r) >>
                \o MatchAll(regex, text, IF r.end = p THEN p + 1 ELSE r.end)
         ELSE MatchAll(regex, text, p + 1)

\* match[groupIndex]
MatchGroup(m, groupIndex) ==
  IF groupIndex = 0 THEN Defined(m.whole)
  ELSE IF groupIndex \in 1..Len(m.groups) THEN m.groups[groupIndex]
  ELSE Undefined

\* String.prototype.indexOf: 0-based position of the first occurrence, or -1
IndexOf(s, sub) ==
  LET hits == {i \in 0..(Len(s) - Len(sub)) : SubSeq(s, i + 1, i + Len(sub)) = sub}
  IN IF hits = {} THEN -1 ELSE CHOOSE i \in hits : \A j \in hits : i <= j

\* What extractMatches returns for one match (value, start, end).
EM(v, a) == [value |-> v, startIndex |-> a, endIndex |-> a + Len(v)]

\* matchGroups is a list of group indices, or null
NullGroups == << -1 >>

\* (mutant) only the first listed index is looked at
FirstParticipating_head(m, matchGroups) ==
  IF matchGroups # << >> /\ MatchGroup(m, Head(matchGroups)).defined
    THEN Head(matchGroups) ELSE -1

\* the loop over matchGroups of extractMatches: the first listed index whose
\* group is not undefined, or -1
RECURSIVE FirstParticipating(_, _)
FirstParticipating(m, matchGroups) ==
  IF matchGroups = << >> THEN -1
  ELSE IF MatchGroup(m, Head(matchGroups)).defined THEN Head(matchGroups)
  ELSE FirstParticipating(m, Tail(matchGroups))

\* the body of the loop over matches of extractMatches
ExtractOne(m, matchGroups) ==
  IF matchGroups = NullGroups \/ Len(matchGroups) = 0 THEN EM(m.whole, m.index)
  ELSE
    LET groupIndex == FirstParticipating(m, matchGroups) IN
    IF groupIndex = -1 THEN EM(m.whole, m.index)
    ELSE LET groupValue == MatchGroup(m, groupIndex).value
             groupOffset == IndexOf(m.whole, groupValue)
         IN EM(groupValue, m.index + (IF groupOffset >= 0 THEN groupOffset ELSE 0))

\* extractMatches(text, regex, matchGroups)
extractMatches(text, regex, matchGroups) ==
  IF text = << >> THEN << >>
  ELSE LET ms == MatchAll(RegExpFrom(regex, {"g"}), text, 0)
       IN [i \in 1..Len(ms) |-> ExtractOne(ms[i], matchGroups)]

(* ------------------------- the host traffic store --------------------- *)
\* The pages the host returns for the main query, in cursor order.  Each item
\* carries the request id, the host's scope verdict, the raw text of the
\* request and, when a response exists, the raw text of the response.
\* Code units: a-e are 97-101, A 65, B 66, x 120, space 32.
Pages ==
  << << [id |-> 1, inScope |-> TRUE, hasResponse |-> TRUE,
         requestRaw |-> << 97, 120, 120, 120, 98 >>,
         responseRaw |-> << 120, 120, 97, 65 >>],
        [id |-> 2, inScope |-> FALSE, hasResponse |-> FALSE,
         requestRaw |-> << 120, 99 >>,
         responseRaw |-> << >>] >>,
     << [id |-> 3, inScope |-> TRUE, hasResponse |-> TRUE,
         requestRaw |-> << 120, 120, 120, 32, 100, 120, 120, 97 >>,
         responseRaw |-> << 32, 120, 120, 120, 0 >>] >>,
     << [id |-> 4, inScope |-> TRUE, hasResponse |-> FALSE,
         requestRaw |-> << 66, 120, 101, 120, 98, 99 >>,
         responseRaw |-> << >>] >> >>

NumPages == Len(Pages)

RECURSIVE Flatten(_)
Flatten(pages) == IF pages = << >> THEN << >> ELSE Head(pages) \o Flatten(Tail(pages))

\* every record of the host store, in cursor order
AllItems == Flatten(Pages)

\* the raw texts of the records
StoreTexts ==
  {AllItems[i].requestRaw : i \in 1..Len(AllItems)}
    \cup {AllItems[i].responseRaw : i \in 1..Len(AllItems)}

\* id of the last request of the store when getLastRequestID asks for it
\* (the query .last(1)): the record of the last page is stored after that,
\* while the scan runs
LastRequestId == Pages[NumPages - 1][Len(Pages[NumPages - 1])].id

\* result.pageInfo of the page fetched with cursor `after` (0: no cursor)
HasNextPage(page) == page < NumPages

(* ------------------------------ options ------------------------------- *)
\* Transform scripts tried: none (null), and eight script bodies (the fifth
\* does not compile, the last returns the one character DEL).
NoScript == "null"
Scripts == {"return match.toUpperCase();", "return null;", "return;", "throw 1;",
            "return (", "return 1;", "return ' ';", "return '\\x7f';"}

\* GrepOptions of a call; maxResults 0 stands for null (no limit).
OptionSet ==
  { [includeRequests |-> TRUE, includeResponses |-> TRUE, maxResults |-> m,
     matchGroups |-> << 0 >>, onlyInScope |-> s, cleanupOutput |-> FALSE,
     transformScript |-> NoScript]
    : m \in 0..MaxResultsBound, s \in {TRUE} }

\* Patterns: one that compiles, one that new RegExp rejects, and one that the
\* request validation of the API layer rejects.
PatternSet == {"ok", "uncompilable", "invalid"}

\* the patterns that compile, and the group lists tried in runs
DataPatternSet == {"ok", "(a)?(b)?c"}
DataGroupLists == {<< 0 >>, << 1, 2 >>, NullGroups}

\* extractMatches(text, regex, matchGroups) on the texts of the records, for
\* the regex of each pattern as executeGrepSearch compiles it: the function
\* is pure, and its results are tabulated here
Extracted ==
  [text \in StoreTexts |->
    [regex \in {RegExpOf(p, {"i"}) : p \in DataPatternSet} |->
      [matchGroups \in DataGroupLists |-> extractMatches(text, regex, matchGroups)]]]

(* ------------------------------ messages ------------------------------ *)
AlreadyRunning == "A grep scan is already running"
NoProject == "No project selected"
NoRequests == "No requests found"
Stopped == "Grep operation was stopped"
HostError == "host error"
InvalidRegExp == "Invalid regular expression"
ValidationError == "validation error"

VARIABLES
  isGrepActive,   \* module-level run flag
  stopPromise,    \* "null", or the state of the pending-stop promise
  stopResolve,    \* TRUE iff the resolver of the pending-stop promise is kept
  stopWaiters,    \* calls suspended in `await stopPromise`, in await order
  grepStore,      \* grepStore.matches: insertion-ordered map, as a sequence
  microtasks,     \* the microtask queue of the event loop
  pc,             \* per grepRequests call: where the call is suspended
  pattern,        \* per call: the pattern argument
  options,        \* per call: the options argument
  after,          \* per run: number of the last page fetched (the cursor)
  matches,        \* per run: the run's own dedup map, as a sequence
  result,         \* per call: the returned envelope
  stopPc,         \* per stopGrep call: where the call is suspended
  stopResult,     \* per stopGrep call: the returned envelope
  stopHit,        \* history: runs that were running when a stopGrep flipped the flag
  failure,        \* history: per call, what ended the run early ("" if nothing)
  sentMatchCount, \* per run: size of the run's map at its last matches event
  events,         \* per run: the caidogrep:matches events sent, in order
  progress,       \* per run: the caidogrep:progress values sent, in order
  queries,        \* per run: the cursors of the page queries issued, in order
  processedRequestID, \* per run: id of the last record the item loop reached
  downloadResult, \* the envelope of the downloadResults call being returned
  extraction,     \* the call of extractMatches under test: arguments and result
  filterCall,     \* the call of buildRegexFilter under test: arguments and result
  wrapper,        \* one call of executeQueryWithCancellationCheck
  batch           \* the batch secret search of the frontend store

vars == << isGrepActive, stopPromise, stopResolve, stopWaiters, grepStore,
           microtasks, pc, pattern, options, after, matches, result,
           stopPc, stopResult, stopHit, failure, sentMatchCount, events,
           progress, queries, processedRequestID, downloadResult, extraction,
           filterCall, wrapper, batch >>

NoResult == [kind |-> "none", error |-> "", dataError |-> "", matchesCount |-> -1]
ErrorEnvelope(msg) == [kind |-> "error", error |-> msg, dataError |-> "", matchesCount |-> -1]

\* no stopGrep call is being returned
NoStopResult == [kind |-> "none", success |-> FALSE, message |-> ""]

\* no downloadResults call is being returned
NoDownload == [kind |-> "none", error |-> "", data |-> << >>]

\* no call of extractMatches under test
NoExtraction == [text |-> << >>, pattern |-> "ok", matchGroups |-> << >>,
                 applied |-> FALSE, out |-> << >>]

\* the module-level state of the service after construction, no call made
ServiceInit ==
  /\ isGrepActive = FALSE
  /\ stopPromise = "null"
  /\ stopResolve = FALSE
  /\ stopWaiters = << >>
  /\ grepStore = << >>
  /\ microtasks = << >>
  /\ pc = [c \in SearchIds |-> "idle"]
  /\ pattern = [c \in SearchIds |-> "ok"]
  /\ options = [c \in SearchIds |-> CHOOSE o \in OptionSet : o.maxResults = 0]
  /\ after = [c \in SearchIds |-> 0]
  /\ matches = [c \in SearchIds |-> << >>]
  /\ result = [c \in SearchIds |-> NoResult]
  /\ stopPc = [t \in StopIds |-> "idle"]
  /\ stopResult = [t \in StopIds |-> NoStopResult]
  /\ stopHit = {}
  /\ failure = [c \in SearchIds |-> ""]
  /\ sentMatchCount = [c \in SearchIds |-> 0]
  /\ events = [c \in SearchIds |-> << >>]
  /\ progress = [c \in SearchIds |-> << >>]
  /\ queries = [c \in SearchIds |-> << >>]
  /\ processedRequestID = [c \in SearchIds |-> 0]
  /\ downloadResult = NoDownload

\* no call of buildRegexFilter under test
NoFilterCall == [source |-> << >>, includeRequests |-> FALSE, includeResponses |-> FALSE,
                 customHTTPQL |-> [given |-> FALSE, text |-> ""],
                 skipLargeResponses |-> FALSE, applied |-> FALSE, out |-> << >>]

\* no call of executeQueryWithCancellationCheck under test
NoWrapper ==
  [phase |-> "none", active |-> TRUE, operation |-> "pending", operationValue |-> "",
   timer |-> "none", outcome |-> "pending", value |-> "", calls |-> 0, ticks |-> 0,
   delivered |-> FALSE]

\* the batch search store before any batch search: status as constructed, no
\* AbortController; `patterns` is the list searched, `index` the pattern whose
\* search is awaited, `started` the searches started (by pattern index) and
\* `inFlight` the number of them that have not returned
NoBatch ==
  [phase |-> "none", patterns |-> << >>, index |-> 0,
   isSearching |-> FALSE, currentPattern |-> 0, patternsCompleted |-> 0,
   totalPatterns |-> 0, cancelled |-> FALSE,
   abortController |-> "null", aborted |-> FALSE,
   searchResults |-> << >>, showResultsDialog |-> FALSE,
   started |-> << >>, inFlight |-> 0]

Init ==
  /\ ServiceInit /\ extraction = NoExtraction
  /\ filterCall = NoFilterCall /\ wrapper = NoWrapper /\ batch = NoBatch


(* ------------------------- pure parts of the run ---------------------- *)
\* (mutant) a script that throws or does not compile discards the match
applyTransform_failClosed(value, script) ==
  CASE script = "return match.toUpperCase();" -> [isNull |-> FALSE, value |-> ToUpperCase(value)]
    [] script = "return 1;" -> [isNull |-> FALSE, value |-> << 49 >>]
    [] script = "return ' ';" -> [isNull |-> FALSE, value |-> << 32 >>]
    [] script = "return '\\x7f';" -> [isNull |-> FALSE, value |-> << 127 >>]
    [] OTHER -> [isNull |-> TRUE, value |-> << >>]

\* applyTransform: new Function("match", script)(value); null for a null or
\* undefined result, the string form of a result that is not a string, the
\* original value when the script does not compile or throws.
applyTransform(value, script) ==
  CASE script = "return match.toUpperCase();" -> [isNull |-> FALSE, value |-> ToUpperCase(value)]
    [] script \in {"return null;", "return;"} -> [isNull |-> TRUE, value |-> << >>]
    [] script = "return 1;" -> [isNull |-> FALSE, value |-> << 49 >>]
    [] script = "return ' ';" -> [isNull |-> FALSE, value |-> << 32 >>]
    [] script = "return '\\x7f';" -> [isNull |-> FALSE, value |-> << 127 >>]
    [] OTHER -> [isNull |-> FALSE, value |-> value]

\* (mutant) the store inserts without looking for the value
addMatch_unchecked(store, m) == Append(store, m)

\* grepStore.addMatch: insert unless a match with the same value is stored
addMatch(store, m) ==
  IF \E i \in 1..Len(store) : store[i].value = m.value THEN store ELSE Append(store, m)

\* (mutant) the run's map never reports a value as present
Has_off(m, v) == FALSE

\* Map.prototype.has on the run's dedup map
Has(m, v) == \E i \in 1..Len(m) : m[i].value = v

\* (mutant) the limit compared with > instead of >=
MaxReached_gt(o, m) == o.maxResults # 0 /\ Len(m) > o.maxResults

\* maxResults && matches.size >= maxResults
MaxReached(o, m) == o.maxResults # 0 /\ Len(m) >= o.maxResults

\* (mutant) the loop goes on while the host reports pages
LoopContinues_pages(hasNextPage, o, m, active) == hasNextPage /\ active

\* while-condition of the pagination loop
LoopContinues(hasNextPage, o, m, active) ==
  hasNextPage /\ ~MaxReached(o, m) /\ active

Tag(ems, id, source) ==
  [i \in 1..Len(ems) |-> [value |-> ems[i].value, requestId |-> id, source |-> source,
                          startIndex |-> ems[i].startIndex, endIndex |-> ems[i].endIndex]]

\* (mutant) the request text is searched whatever includeRequests says
findMatchesInRequestResponse_always(item, regex, o) ==
  Tag(Extracted[item.requestRaw][regex][o.matchGroups], item.id, "request")
  \o (IF o.includeResponses /\ item.hasResponse
        THEN Tag(Extracted[item.responseRaw][regex][o.matchGroups], item.id, "response")
        ELSE << >>)

\* findMatchesInRequestResponse: request matches, then response matches
findMatchesInRequestResponse(item, regex, o) ==
  (IF o.includeRequests
     THEN Tag(Extracted[item.requestRaw][regex][o.matchGroups], item.id, "request")
     ELSE << >>)
  \o (IF o.includeResponses /\ item.hasResponse
        THEN Tag(Extracted[item.responseRaw][regex][o.matchGroups], item.id, "response")
        ELSE << >>)

\* (mutant) the printable-ASCII test is not made
CleanupRejects_off(o, v) == FALSE

\* options.cleanupOutput && /[^\x20-\x7E]/.test(processedValue)
CleanupRejects(o, v) == o.cleanupOutput /\ HasNonPrintable(v)

\* (mutant) the scope verdict of the host is not consulted
OutOfScopeSkipped_off(o, item) == FALSE

\* onlyInScope && !sdk.requests.inScope(item.request)
OutOfScopeSkipped(o, item) == o.onlyInScope /\ ~item.inScope

\* (mutant) the indices are recomputed from the final value
FinalMatch_reindexed(mr, v) == [mr EXCEPT !.value = v, !.endIndex = mr.startIndex + Len(v)]

\* { ...matchResult, value: processedValue }
FinalMatch(mr, v) == [mr EXCEPT !.value = v]

\* the loop over newMatches of one record: trim, cleanup, transform, dedup,
\* insert into the run's map and the store, break when maxResults is reached
RECURSIVE ProcessMatches(_, _, _, _)
ProcessMatches(ms, m, store, o) ==
  IF ms = << >> THEN [matches |-> m, store |-> store]
  ELSE
    LET mr == Head(ms)
        trimmed == Trim(mr.value)
        skip == ProcessMatches(Tail(ms), m, store, o)
    IN
    IF CleanupRejects(o, trimmed) THEN skip
    ELSE IF Len(trimmed) = 0 THEN skip
    ELSE
      LET t == IF o.transformScript # NoScript
                 THEN applyTransform(trimmed, o.transformScript)
                 ELSE [isNull |-> FALSE, value |-> trimmed]
          processedValue == IF o.transformScript # NoScript THEN Trim(t.value) ELSE trimmed
      IN
      IF t.isNull \/ Len(processedValue) = 0 THEN skip
      ELSE IF Has(m, processedValue) THEN skip
      ELSE
        LET finalMatch == FinalMatch(mr, processedValue)
            m2 == Append(m, finalMatch)
            store2 == addMatch(store, finalMatch)
        IN IF MaxReached(o, m2)
             THEN [matches |-> m2, store |-> store2]
             ELSE ProcessMatches(Tail(ms), m2, store2, o)

\* the loop over result.items of one page (the run flag cannot change while
\* this synchronous loop runs, so its per-item stop check never fires)
RECURSIVE ProcessItems(_, _, _, _, _)
ProcessItems(items, regex, m, store, o) ==
  IF items = << >> THEN [matches |-> m, store |-> store]
  ELSE
    LET item == Head(items) IN
    IF MaxReached(o, m) THEN [matches |-> m, store |-> store]
    ELSE IF OutOfScopeSkipped(o, item) THEN ProcessItems(Tail(items), regex, m, store, o)
    ELSE
      LET r == ProcessMatches(findMatchesInRequestResponse(item, regex, o), m, store, o)
      IN ProcessItems(Tail(items), regex, r.matches, r.store, o)

\* the value of processedRequestID after the loop over result.items of one
\* page: the id of the last record the loop reached (line 248), the record at
\* which it broke included
RECURSIVE LastItemReached(_, _, _, _, _, _)
LastItemReached(items, regex, m, store, o, processed) ==
  IF items = << >> THEN processed
  ELSE
    LET item == Head(items) IN
    IF MaxReached(o, m) THEN item.id
    ELSE IF OutOfScopeSkipped(o, item)
      THEN LastItemReached(Tail(items), regex, m, store, o, item.id)
    ELSE
      LET r == ProcessMatches(findMatchesInRequestResponse(item, regex, o), m, store, o)
      IN LastItemReached(Tail(items), regex, r.matches, r.store, o, item.id)

\* (mutant) the percentage is not capped
Progress_uncapped(processed, lastRequestId) == (processed * 100) \div lastRequestId

\* Math.min(Math.floor((processedRequestID / lastRequestId) * 100), 99)
Progress(processed, lastRequestId) ==
  LET percent == (processed * 100) \div lastRequestId
  IN IF percent < 99 THEN percent ELSE 99

\* (mutant) the cursor is never advanced
NextCursor_stuck(hasNextPage, endCursor, cursor) == cursor

\* lines 312-315: after = result.pageInfo.endCursor when the host reports a
\* next page (the end cursor of page k is written k; 0 is `undefined`)
NextCursor(hasNextPage, endCursor, cursor) == IF hasNextPage THEN endCursor ELSE cursor

\* (mutant) the limit compared with >= instead of >
SentOverLimit_ge(sent) == sent >= SentArrayLimit

\* sentMatchCount > 25000
SentOverLimit(sent) == sent > SentArrayLimit

\* (mutant) the event carries every match of the run, not the new ones
MatchesEvent_all(m, sent) ==
  IF Len(m) > sent
    THEN IF SentOverLimit(sent)
           THEN << [array |-> FALSE, items |-> << >>, number |-> Len(m)] >>
           ELSE << [array |-> TRUE, items |-> m, number |-> 0] >>
    ELSE << >>

\* lines 301-309: the caidogrep:matches event of one loop iteration, if any:
\* the matches inserted since the last event, or only their number
MatchesEvent(m, sent) ==
  IF Len(m) > sent
    THEN LET newMatchResults == SubSeq(m, sent + 1, Len(m)) IN
         IF SentOverLimit(sent)
           THEN << [array |-> FALSE, items |-> << >>, number |-> Len(newMatchResults)] >>
           ELSE << [array |-> TRUE, items |-> newMatchResults, number |-> 0] >>
    ELSE << >>

(* ------------------------- event-loop plumbing ------------------------ *)
Task(k, id, label, msg, n) == [k |-> k, id |-> id, label |-> label, msg |-> msg, n |-> n]

\* guard of a job of the event loop: the previous job's microtasks are drained
\* (and the envelopes of the calls that have returned are with their callers)
JobStarts ==
  /\ microtasks = << >>
  /\ \A c \in SearchIds : pc[c] # "done"
  /\ \A t \in StopIds : stopPc[t] # "done"
  /\ downloadResult = NoDownload

\* guard of a microtask: it is the oldest one queued
NextMicrotask(k, id, label) ==
  /\ microtasks # << >>
  /\ Head(microtasks).k = k /\ Head(microtasks).id = id /\ Head(microtasks).label = label

\* `if (stopResolve) stopResolve()`: settles the pending-stop promise and
\* queues the continuations of the calls awaiting it, in await order
StopResolves == stopResolve /\ stopPromise = "pending"
Woken ==
  IF StopResolves
    THEN [i \in 1..Len(stopWaiters) |-> Task(stopWaiters[i].k, stopWaiters[i].id, "resume", "", 0)]
    ELSE << >>
CallStopResolve ==
  /\ stopPromise' = IF StopResolves THEN "resolved" ELSE stopPromise
  /\ stopWaiters' = IF StopResolves THEN << >> ELSE stopWaiters
  /\ UNCHANGED stopResolve

\* a call is a running run from the assignment isGrepActive = true until its
\* finally block has run
Running(c) == pc[c] \notin {"idle", "awaitStop", "done"}

\* (mutant) the start guard never rejects
StartGuard_off(active) == FALSE

\* the start guard of grepRequests: if (isGrepActive)
StartGuard(active) == active

\* (mutant) the catch clause rethrows
CatchEnvelope_rethrow(msg) ==
  [kind |-> "threw", error |-> msg, dataError |-> "", matchesCount |-> -1]

\* the catch clause of grepRequests
CatchEnvelope(msg) == ErrorEnvelope(msg)

\* (mutant) an error returned by executeGrepSearch is lifted to the envelope
DataEnvelope_lifted(dataError, n) ==
  IF dataError # "" THEN ErrorEnvelope(dataError)
  ELSE [kind |-> "data", error |-> "", dataError |-> dataError, matchesCount |-> n]

\* return { data: { ...result, timeTaken } } where result is what
\* executeGrepSearch returned: {matchesCount} or {error}
DataEnvelope(dataError, n) ==
  [kind |-> "data", error |-> "", dataError |-> dataError, matchesCount |-> n]

\* (mutant) no finally clause
AfterFinally_kept(flag) == flag

\* the finally clause of grepRequests: isGrepActive = false
AfterFinally(flag) == FALSE


(* ------------------------------ grepRequests -------------------------- *)
\* lines 78-82 of grepRequests and the first await of executeGrepSearch:
\* set the flag, clear the store, ask the host for the current project
StartRun(c) ==
  /\ isGrepActive' = TRUE
  /\ grepStore' = << >>
  /\ pc' = [pc EXCEPT ![c] = "awaitProject"]

\* grepRequests(pattern, options) up to its first await or its return
grepRequestsCall(c, p, o) ==
  /\ pattern' = [pattern EXCEPT ![c] = p]
  /\ options' = [options EXCEPT ![c] = o]
  /\ IF p = "invalid"
       THEN \* GrepPatternSchema.parse throws; the API layer returns the error
            /\ result' = [result EXCEPT ![c] = ErrorEnvelope(ValidationError)]
            /\ pc' = [pc EXCEPT ![c] = "done"]
            /\ UNCHANGED << isGrepActive, grepStore, stopWaiters, microtasks >>
       ELSE IF StartGuard(isGrepActive)
       THEN /\ result' = [result EXCEPT ![c] = ErrorEnvelope(AlreadyRunning)]
            /\ pc' = [pc EXCEPT ![c] = "done"]
            /\ UNCHANGED << isGrepActive, grepStore, stopWaiters, microtasks >>
       ELSE IF stopPromise = "pending"
       THEN \* await stopPromise
            /\ stopWaiters' = Append(stopWaiters, [k |-> "S", id |-> c])
            /\ pc' = [pc EXCEPT ![c] = "awaitStop"]
            /\ UNCHANGED << isGrepActive, grepStore, microtasks, result >>
       ELSE IF stopPromise = "resolved"
       THEN /\ microtasks' = Append(microtasks, Task("S", c, "resume", "", 0))
            /\ pc' = [pc EXCEPT ![c] = "awaitStop"]
            /\ UNCHANGED << isGrepActive, grepStore, stopWaiters, result >>
       ELSE /\ StartRun(c)
            /\ UNCHANGED << stopWaiters, microtasks, result >>

\* job: the API call grepRequests(pattern, options) arrives
grepRequests(c) ==
  /\ JobStarts
  /\ pc[c] = "idle"
  /\ \A d \in 1..(c - 1) : pc[d] # "idle"
  /\ \E p \in PatternSet, o \in OptionSet : grepRequestsCall(c, p, o)
  /\ UNCHANGED << progress, queries, processedRequestID, downloadResult,
                  sentMatchCount, events, extraction, filterCall, wrapper, batch,
                  stopPromise, stopResolve, after, matches, stopPc, stopResult, stopHit, failure >>

\* microtask: grepRequests resumes after `await stopPromise`
grepRequestsResume(c) ==
  /\ NextMicrotask("S", c, "resume")
  /\ microtasks' = Tail(microtasks)
  /\ StartRun(c)
  /\ UNCHANGED << progress, queries, processedRequestID, downloadResult,
                  sentMatchCount, events, extraction, filterCall, wrapper, batch,
                  stopPromise, stopResolve, stopWaiters, pattern, options, after,
                  matches, result, stopPc, stopResult, stopHit, failure >>

\* microtask: the await of executeGrepSearch in grepRequests throws; catch
\* and finally clauses
grepRequestsCatch(c) ==
  /\ NextMicrotask("S", c, "grepCatch")
  /\ microtasks' = Tail(microtasks)
  /\ result' = [result EXCEPT ![c] = CatchEnvelope(Head(microtasks).msg)]
  /\ isGrepActive' = AfterFinally(isGrepActive)
  /\ pc' = [pc EXCEPT ![c] = "done"]
  /\ after' = [after EXCEPT ![c] = 0]
  /\ matches' = [matches EXCEPT ![c] = << >>]
  /\ sentMatchCount' = [sentMatchCount EXCEPT ![c] = 0]
  /\ events' = [events EXCEPT ![c] = << >>]
  /\ progress' = [progress EXCEPT ![c] = << >>]
  /\ queries' = [queries EXCEPT ![c] = << >>]
  /\ processedRequestID' = [processedRequestID EXCEPT ![c] = 0]
  /\ UNCHANGED << downloadResult, extraction, filterCall, wrapper, batch,
                  stopPromise, stopResolve, stopWaiters, grepStore, pattern, options,
                  stopPc, stopResult, stopHit, failure >>

\* microtask: executeGrepSearch returned; grepRequests wraps the result in
\* {data: {...result, timeTaken}} and runs the finally clause
grepRequestsReturn(c) ==
  /\ NextMicrotask("S", c, "grepReturn")
  /\ microtasks' = Tail(microtasks)
  /\ result' = [result EXCEPT ![c] = DataEnvelope(Head(microtasks).msg, Head(microtasks).n)]
  /\ isGrepActive' = AfterFinally(isGrepActive)
  /\ pc' = [pc EXCEPT ![c] = "done"]
  /\ after' = [after EXCEPT ![c] = 0]
  /\ matches' = [matches EXCEPT ![c] = << >>]
  /\ sentMatchCount' = [sentMatchCount EXCEPT ![c] = 0]
  /\ events' = [events EXCEPT ![c] = << >>]
  /\ progress' = [progress EXCEPT ![c] = << >>]
  /\ queries' = [queries EXCEPT ![c] = << >>]
  /\ processedRequestID' = [processedRequestID EXCEPT ![c] = 0]
  /\ UNCHANGED << downloadResult, extraction, filterCall, wrapper, batch,
                  stopPromise, stopResolve, stopWaiters, grepStore, pattern, options,
                  stopPc, stopResult, stopHit, failure >>

(* ---------------------------- executeGrepSearch ----------------------- *)
\* job: sdk.projects.getCurrent() settles; executeGrepSearch lines 145-150
ProjectSettles(c) ==
  /\ JobStarts
  /\ pc[c] = "awaitProject"
  /\ \E outcome \in {"project", "none", "rejected"} :
       CASE outcome = "rejected" ->
              /\ microtasks' = << Task("S", c, "grepCatch", HostError, 0) >>
              /\ pc' = [pc EXCEPT ![c] = "grepCatch"]
              /\ failure' = [failure EXCEPT ![c] = "hostError"]
         [] outcome = "none" ->
              /\ microtasks' = << Task("S", c, "grepReturn", NoProject, -1) >>
              /\ pc' = [pc EXCEPT ![c] = "grepReturn"]
              /\ failure' = [failure EXCEPT ![c] = "noProject"]
         [] OTHER ->
              \* getLastRequestID: sdk.requests.query().last(1).execute()
              /\ pc' = [pc EXCEPT ![c] = "awaitLastId"]
              /\ UNCHANGED << microtasks, failure >>
  /\ UNCHANGED << progress, queries, processedRequestID, downloadResult,
                  sentMatchCount, events, extraction, filterCall, wrapper, batch,
                  isGrepActive, stopPromise, stopResolve, stopWaiters, grepStore, pattern,
                  options, after, matches, result, stopPc, stopResult, stopHit >>

\* job: the .last(1) query settles inside getLastRequestID
getLastRequestID(c) ==
  /\ JobStarts
  /\ pc[c] = "awaitLastId"
  /\ \E outcome \in {"found", "empty", "rejected"} :
       CASE outcome = "rejected" ->
              /\ microtasks' = << Task("S", c, "lastIdThrow", HostError, 0) >>
              /\ pc' = [pc EXCEPT ![c] = "lastIdThrow"]
              /\ failure' = [failure EXCEPT ![c] = "hostError"]
         [] outcome = "empty" ->
              /\ microtasks' = << Task("S", c, "lastIdReturn", "", 0) >>
              /\ pc' = [pc EXCEPT ![c] = "lastIdReturn"]
              /\ UNCHANGED failure
         [] OTHER ->
              /\ microtasks' = << Task("S", c, "lastIdReturn", "", LastRequestId) >>
              /\ pc' = [pc EXCEPT ![c] = "lastIdReturn"]
              /\ UNCHANGED failure
  /\ UNCHANGED << progress, queries, processedRequestID, downloadResult,
                  sentMatchCount, events, extraction, filterCall, wrapper, batch,
                  isGrepActive, stopPromise, stopResolve, stopWaiters, grepStore, pattern,
                  options, after, matches, result, stopPc, stopResult, stopHit >>

\* microtask: getLastRequestID rejected; executeGrepSearch rejects in turn
LastIdThrows(c) ==
  /\ NextMicrotask("S", c, "lastIdThrow")
  /\ microtasks' = Append(Tail(microtasks), Task("S", c, "grepCatch", Head(microtasks).msg, 0))
  /\ pc' = [pc EXCEPT ![c] = "grepCatch"]
  /\ UNCHANGED << progress, queries, processedRequestID, downloadResult,
                  sentMatchCount, events, extraction, filterCall, wrapper, batch,
                  isGrepActive, stopPromise, stopResolve, stopWaiters, grepStore, pattern,
                  options, after, matches, result, stopPc, stopResult, stopHit, failure >>

\* microtask: executeGrepSearch lines 151-161 and fetchAndProcessRequests up
\* to its first await: precondition, pattern compilation, first loop head
LastIdReturns(c) ==
  /\ NextMicrotask("S", c, "lastIdReturn")
  /\ LET lastRequestId == Head(microtasks).n
         rest == Tail(microtasks)
     IN
     IF lastRequestId = 0
       THEN /\ microtasks' = Append(rest, Task("S", c, "grepReturn", NoRequests, -1))
            /\ pc' = [pc EXCEPT ![c] = "grepReturn"]
            /\ failure' = [failure EXCEPT ![c] = "noRequests"]
            /\ UNCHANGED << after, matches, sentMatchCount, events, progress, queries,
                            processedRequestID >>
       ELSE IF pattern[c] = "uncompilable"
       THEN \* new RegExp(pattern, "i") throws outside the try of executeGrepSearch
            /\ microtasks' = Append(rest, Task("S", c, "grepCatch", InvalidRegExp, 0))
            /\ pc' = [pc EXCEPT ![c] = "grepCatch"]
            /\ failure' = [failure EXCEPT ![c] = "compile"]
            /\ UNCHANGED << after, matches, sentMatchCount, events, progress, queries,
                            processedRequestID >>
       ELSE /\ after' = [after EXCEPT ![c] = 0]
            /\ matches' = [matches EXCEPT ![c] = << >>]
            /\ sentMatchCount' = [sentMatchCount EXCEPT ![c] = 0]
            /\ events' = [events EXCEPT ![c] = << >>]
            /\ processedRequestID' = [processedRequestID EXCEPT ![c] = 0]
            /\ UNCHANGED failure
            /\ IF LoopContinues(TRUE, options[c], << >>, isGrepActive)
                 THEN \* progress of line 158 and of the first iteration; first query
                      /\ progress' = [progress EXCEPT ![c] = << 0, Progress(0, lastRequestId) >>]
                      /\ queries' = [queries EXCEPT ![c] = << 0 >>]
                      /\ microtasks' = rest
                      /\ pc' = [pc EXCEPT ![c] = "awaitQuery"]
                 ELSE /\ progress' = [progress EXCEPT ![c] = << 0 >>]
                      /\ queries' = [queries EXCEPT ![c] = << >>]
                      /\ microtasks' = Append(rest, Task("S", c, "execAfter", "", 0))
                      /\ pc' = [pc EXCEPT ![c] = "execAfter"]
  /\ UNCHANGED << downloadResult, extraction, filterCall, wrapper, batch,
                  isGrepActive, stopPromise, stopResolve, stopWaiters, grepStore, pattern,
                  options, result, stopPc, stopResult, stopHit >>

\* microtask: fetchAndProcessRequests rejected; catch clause of executeGrepSearch
executeGrepSearchCatch(c) ==
  /\ NextMicrotask("S", c, "execCatch")
  /\ CallStopResolve
  /\ microtasks' = Tail(microtasks) \o Woken
                     \o << Task("S", c, "grepCatch", Head(microtasks).msg, 0) >>
  /\ pc' = [pc EXCEPT ![c] = "grepCatch"]
  /\ UNCHANGED << progress, queries, processedRequestID, downloadResult,
                  sentMatchCount, events, extraction, filterCall, wrapper, batch,
                  isGrepActive, grepStore, pattern, options, after, matches, result,
                  stopPc, stopResult, stopHit, failure >>

\* microtask: fetchAndProcessRequests returned; executeGrepSearch lines 174-180
executeGrepSearchReturn(c) ==
  /\ NextMicrotask("S", c, "execAfter")
  /\ CallStopResolve
  /\ microtasks' = Tail(microtasks) \o Woken
                     \o << Task("S", c, "grepReturn", "", Head(microtasks).n) >>
  /\ pc' = [pc EXCEPT ![c] = "grepReturn"]
  /\ UNCHANGED << progress, queries, processedRequestID, downloadResult,
                  sentMatchCount, events, extraction, filterCall, wrapper, batch,
                  isGrepActive, grepStore, pattern, options, after, matches, result,
                  stopPc, stopResult, stopHit, failure >>


(* ------ fetchAndProcessRequests and executeQueryWithCancellationCheck -- *)
\* job: query.execute() settles while the wrapper is pending; the wrapper
\* clears its interval and settles the same way
QuerySettles(c) ==
  /\ JobStarts
  /\ pc[c] = "awaitQuery"
  /\ \E outcome \in {"page", "rejected"} :
       IF outcome = "rejected"
         THEN /\ microtasks' = << Task("S", c, "fetchThrow", HostError, 0) >>
              /\ pc' = [pc EXCEPT ![c] = "fetchThrow"]
              /\ failure' = [failure EXCEPT ![c] = "hostError"]
         ELSE /\ microtasks' = << Task("S", c, "fetchResume", "", after[c] + 1) >>
              /\ pc' = [pc EXCEPT ![c] = "fetchResume"]
              /\ UNCHANGED failure
  /\ UNCHANGED << progress, queries, processedRequestID, downloadResult,
                  sentMatchCount, events, extraction, filterCall, wrapper, batch,
                  isGrepActive, stopPromise, stopResolve, stopWaiters, grepStore, pattern,
                  options, after, matches, result, stopPc, stopResult, stopHit >>

\* job: the 100 ms interval of the wrapper fires and finds the flag inactive:
\* it clears itself and rejects the wrapper (a firing that finds the flag
\* active changes nothing)
PollFires(c) ==
  /\ JobStarts
  /\ pc[c] = "awaitQuery"
  /\ ~isGrepActive
  /\ microtasks' = << Task("S", c, "fetchThrow", Stopped, 0) >>
  /\ pc' = [pc EXCEPT ![c] = "fetchThrow"]
  /\ failure' = [failure EXCEPT ![c] = "stopped"]
  /\ UNCHANGED << progress, queries, processedRequestID, downloadResult,
                  sentMatchCount, events, extraction, filterCall, wrapper, batch,
                  isGrepActive, stopPromise, stopResolve, stopWaiters, grepStore, pattern,
                  options, after, matches, result, stopPc, stopResult, stopHit >>

\* microtask: the awaited wrapper rejected; fetchAndProcessRequests rejects
FetchThrows(c) ==
  /\ NextMicrotask("S", c, "fetchThrow")
  /\ microtasks' = Append(Tail(microtasks), Task("S", c, "execCatch", Head(microtasks).msg, 0))
  /\ pc' = [pc EXCEPT ![c] = "execCatch"]
  /\ UNCHANGED << progress, queries, processedRequestID, downloadResult,
                  sentMatchCount, events, extraction, filterCall, wrapper, batch,
                  isGrepActive, stopPromise, stopResolve, stopWaiters, grepStore, pattern,
                  options, after, matches, result, stopPc, stopResult, stopHit, failure >>

\* microtask: the awaited wrapper resolved with a page; lines 232-316 and the
\* next loop head, up to the next await or the return
fetchAndProcessRequests(c) ==
  /\ NextMicrotask("S", c, "fetchResume")
  /\ LET page == Head(microtasks).n
         rest == Tail(microtasks)
     IN
     IF ~isGrepActive
       THEN /\ CallStopResolve
            /\ microtasks' = rest \o Woken \o << Task("S", c, "execCatch", Stopped, 0) >>
            /\ pc' = [pc EXCEPT ![c] = "execCatch"]
            /\ failure' = [failure EXCEPT ![c] = "stopped"]
            /\ UNCHANGED << grepStore, after, matches, sentMatchCount, events, progress,
                            queries, processedRequestID >>
       ELSE LET r == ProcessItems(Pages[page], RegExpOf(pattern[c], {"i"}),
                                  matches[c], grepStore, options[c])
                hasNextPage == HasNextPage(page)
                processed == LastItemReached(Pages[page], RegExpOf(pattern[c], {"i"}),
                                             matches[c], grepStore, options[c],
                                             processedRequestID[c])
                cursor == NextCursor(hasNextPage, page, after[c])
            IN
            /\ matches' = [matches EXCEPT ![c] = r.matches]
            /\ grepStore' = r.store
            /\ events' = [events EXCEPT ![c] = @ \o MatchesEvent(r.matches, sentMatchCount[c])]
            /\ sentMatchCount' = [sentMatchCount EXCEPT ![c] = Len(r.matches)]
            /\ processedRequestID' = [processedRequestID EXCEPT ![c] = processed]
            /\ after' = [after EXCEPT ![c] = cursor]
            /\ IF LoopContinues(hasNextPage, options[c], r.matches, isGrepActive)
                 THEN /\ progress' = [progress EXCEPT ![c] =
                                        Append(@, Progress(processed, LastRequestId))]
                      /\ queries' = [queries EXCEPT ![c] = Append(@, cursor)]
                      /\ microtasks' = rest
                      /\ pc' = [pc EXCEPT ![c] = "awaitQuery"]
                 ELSE /\ microtasks' = Append(rest, Task("S", c, "execAfter", "", Len(r.matches)))
                      /\ pc' = [pc EXCEPT ![c] = "execAfter"]
                      /\ UNCHANGED << progress, queries >>
            /\ UNCHANGED << stopPromise, stopResolve, stopWaiters, failure >>
  /\ UNCHANGED << downloadResult, extraction, filterCall, wrapper, batch,
                  isGrepActive, pattern, options, result, stopPc, stopResult, stopHit >>

(* -------------------------------- stopGrep ---------------------------- *)
NoScanRunning == "No grep scan is currently running"
ScanStopped == "Grep scan stopped successfully"

\* { data: { success, message } }, the envelope stopGrep returns
StopEnvelope(success, message) ==
  [kind |-> "data", success |-> success, message |-> message]

\* (mutant) stopGrep does not look at the flag
StopGuard_off(active) == FALSE

\* the guard of stopGrep: if (!isGrepActive)
StopGuard(active) == ~active

\* job: the API call stopGrep() arrives
stopGrep(t) ==
  /\ JobStarts
  /\ stopPc[t] = "idle"
  /\ \A d \in 1..(t - 1) : stopPc[d] # "idle"
  /\ IF StopGuard(isGrepActive)
       THEN /\ stopResult' = [stopResult EXCEPT ![t] = StopEnvelope(FALSE, NoScanRunning)]
            /\ stopPc' = [stopPc EXCEPT ![t] = "done"]
            /\ UNCHANGED << isGrepActive, stopPromise, stopResolve, stopWaiters,
                            microtasks, stopHit >>
       ELSE /\ stopPromise' = IF stopPromise = "null" THEN "pending" ELSE stopPromise
            /\ stopResolve' = IF stopPromise = "null" THEN TRUE ELSE stopResolve
            /\ isGrepActive' = FALSE
            /\ stopHit' = stopHit \cup {c \in SearchIds : Running(c)}
            /\ stopPc' = [stopPc EXCEPT ![t] = "awaitStop"]
            /\ IF stopPromise = "resolved"
                 THEN /\ microtasks' = Append(microtasks, Task("T", t, "resume", "", 0))
                      /\ UNCHANGED stopWaiters
                 ELSE /\ stopWaiters' = Append(stopWaiters, [k |-> "T", id |-> t])
                      /\ UNCHANGED microtasks
            /\ UNCHANGED stopResult
  /\ UNCHANGED << progress, queries, processedRequestID, downloadResult,
                  sentMatchCount, events, extraction, filterCall, wrapper, batch,
                  grepStore, pc, pattern, options, after, matches, result, failure >>

\* microtask: stopGrep resumes after `await stopPromise`
stopGrepResume(t) ==
  /\ NextMicrotask("T", t, "resume")
  /\ microtasks' = Tail(microtasks)
  /\ stopPromise' = "null"
  /\ stopResolve' = FALSE
  /\ stopResult' = [stopResult EXCEPT ![t] = StopEnvelope(TRUE, ScanStopped)]
  /\ stopPc' = [stopPc EXCEPT ![t] = "done"]
  /\ UNCHANGED << progress, queries, processedRequestID, downloadResult,
                  sentMatchCount, events, extraction, filterCall, wrapper, batch,
                  isGrepActive, stopWaiters, grepStore, pc, pattern, options, after,
                  matches, result, stopHit, failure >>

(* ---------------------------- downloadResults ------------------------- *)
\* (mutant) the store is reported empty below two entries
StoreIsEmpty_one(store) == Len(store) <= 1

\* grepStore.matches.size === 0
StoreIsEmpty(store) == Len(store) = 0

\* the envelope downloadResults returns for a store: an error, or
\* grepStore.getMatches(), the values of the map in insertion order
DownloadEnvelope(store) ==
  IF StoreIsEmpty(store)
    THEN [kind |-> "error", error |-> "No grep results available", data |-> << >>]
    ELSE [kind |-> "data", error |-> "", data |-> store]

\* job: the API call downloadResults() arrives; it has no await
downloadResults ==
  /\ JobStarts
  /\ downloadResult' = DownloadEnvelope(grepStore)
  /\ UNCHANGED << isGrepActive, stopPromise, stopResolve, stopWaiters, grepStore,
                  microtasks, pc, pattern, options, after, matches, result,
                  stopPc, stopResult, stopHit, failure, sentMatchCount, events,
                  progress, queries, processedRequestID, extraction, filterCall, wrapper, batch >>

(* ------------------------------- callers ----------------------------- *)
DefaultOptions == CHOOSE o \in OptionSet : o.maxResults = 0

\* the caller of grepRequests has its envelope; the call is over
SearchResponds(c) ==
  /\ pc[c] = "done"
  /\ microtasks = << >>
  /\ pc' = [pc EXCEPT ![c] = "idle"]
  /\ result' = [result EXCEPT ![c] = NoResult]
  /\ pattern' = [pattern EXCEPT ![c] = "ok"]
  /\ options' = [options EXCEPT ![c] = DefaultOptions]
  /\ stopHit' = stopHit \ {c}
  /\ failure' = [failure EXCEPT ![c] = ""]
  /\ UNCHANGED << progress, queries, processedRequestID, downloadResult,
                  sentMatchCount, events, extraction, filterCall, wrapper, batch,
                  isGrepActive, stopPromise, stopResolve, stopWaiters, grepStore,
                  microtasks, after, matches, stopPc, stopResult >>

\* the caller of stopGrep has its envelope; the call is over
StopResponds(t) ==
  /\ stopPc[t] = "done"
  /\ microtasks = << >>
  /\ stopPc' = [stopPc EXCEPT ![t] = "idle"]
  /\ stopResult' = [stopResult EXCEPT ![t] = NoStopResult]
  /\ UNCHANGED << progress, queries, processedRequestID, downloadResult,
                  sentMatchCount, events, extraction, filterCall, wrapper, batch,
                  isGrepActive, stopPromise, stopResolve, stopWaiters, grepStore,
                  microtasks, pc, pattern, options, after, matches, result, stopHit, failure >>

\* the caller of downloadResults has its envelope; the call is over
DownloadResponds ==
  /\ downloadResult # NoDownload
  /\ downloadResult' = NoDownload
  /\ UNCHANGED << isGrepActive, stopPromise, stopResolve, stopWaiters, grepStore,
                  microtasks, pc, pattern, options, after, matches, result,
                  stopPc, stopResult, stopHit, failure, sentMatchCount, events,
                  progress, queries, processedRequestID, extraction, filterCall, wrapper, batch >>

(* ------------------------------ specification ------------------------- *)
Next ==
  \/ \E c \in SearchIds : grepRequests(c)
  \/ \E c \in SearchIds : grepRequestsResume(c)
  \/ \E c \in SearchIds : grepRequestsCatch(c)
  \/ \E c \in SearchIds : grepRequestsReturn(c)
  \/ \E c \in SearchIds : ProjectSettles(c)
  \/ \E c \in SearchIds : getLastRequestID(c)
  \/ \E c \in SearchIds : LastIdThrows(c)
  \/ \E c \in SearchIds : LastIdReturns(c)
  \/ \E c \in SearchIds : executeGrepSearchCatch(c)
  \/ \E c \in SearchIds : executeGrepSearchReturn(c)
  \/ \E c \in SearchIds : QuerySettles(c)
  \/ \E c \in SearchIds : PollFires(c)
  \/ \E c \in SearchIds : FetchThrows(c)
  \/ \E c \in SearchIds : fetchAndProcessRequests(c)
  \/ \E t \in StopIds : stopGrep(t)
  \/ \E t \in StopIds : stopGrepResume(t)
  \/ \E c \in SearchIds : SearchResponds(c)
  \/ \E t \in StopIds : StopResponds(t)
  \/ downloadResults
  \/ DownloadResponds

Spec == Init /\ [][Next]_vars

TypeOK ==
  /\ isGrepActive \in BOOLEAN
  /\ stopPromise \in {"null", "pending", "resolved"}
  /\ stopResolve \in BOOLEAN


\* Fairness: every host call settles and timers fire (the event loop runs
\* each job it has queued, however many API calls arrive in between), queued
\* microtasks run, and envelopes reach their callers.  Nothing obliges a
\* caller to call.
Fairness ==
  /\ \A c \in SearchIds :
       /\ SF_vars(ProjectSettles(c)) /\ SF_vars(getLastRequestID(c))
       /\ SF_vars(QuerySettles(c)) /\ SF_vars(PollFires(c))
       /\ WF_vars(grepRequestsResume(c)) /\ WF_vars(grepRequestsCatch(c))
       /\ WF_vars(grepRequestsReturn(c)) /\ WF_vars(LastIdThrows(c))
       /\ WF_vars(LastIdReturns(c)) /\ WF_vars(executeGrepSearchCatch(c))
       /\ WF_vars(executeGrepSearchReturn(c)) /\ WF_vars(FetchThrows(c))
       /\ WF_vars(fetchAndProcessRequests(c)) /\ WF_vars(SearchResponds(c))
  /\ \A t \in StopIds : WF_vars(stopGrepResume(t)) /\ WF_vars(StopResponds(t))
  /\ WF_vars(DownloadResponds)

FairSpec == Init /\ [][Next]_vars /\ Fairness

(* ---------------- one run at a time, every option tried --------------- *)
\* GrepOptions over every combination of the switches the run reads
DataOptionSet ==
  { [includeRequests |-> ir, includeResponses |-> ip, maxResults |-> m,
     matchGroups |-> mg, onlyInScope |-> s, cleanupOutput |-> cl,
     transformScript |-> ts]
    : ir \in BOOLEAN, ip \in BOOLEAN, m \in 0..MaxResultsBound,
      mg \in DataGroupLists, s \in BOOLEAN, cl \in BOOLEAN,
      ts \in Scripts \cup {NoScript} }

\* job: the API call grepRequests(pattern, options) arrives, no other call
\* being in flight
grepRequestsAlone ==
  /\ JobStarts
  /\ pc[1] = "idle"
  /\ \E p \in DataPatternSet, o \in DataOptionSet : grepRequestsCall(1, p, o)
  /\ UNCHANGED << stopPromise, stopResolve, after, matches, stopPc, stopResult, stopHit,
                  failure, sentMatchCount, events, progress, queries,
                  processedRequestID, downloadResult, extraction, filterCall, wrapper, batch >>

DataNext ==
  \/ grepRequestsAlone
  \/ grepRequestsCatch(1)
  \/ grepRequestsReturn(1)
  \/ ProjectSettles(1)
  \/ getLastRequestID(1)
  \/ LastIdThrows(1)
  \/ LastIdReturns(1)
  \/ executeGrepSearchCatch(1)
  \/ executeGrepSearchReturn(1)
  \/ QuerySettles(1)
  \/ FetchThrows(1)
  \/ fetchAndProcessRequests(1)
  \/ SearchResponds(1)
  \/ downloadResults
  \/ DownloadResponds

DataSpec == Init /\ [][DataNext]_vars

(* ---------------------- extractMatches on its own --------------------- *)
\* texts: "abc", "xbcxacxc", "cAbcbc", " a", "bbab" and the empty text
ExtractTexts ==
  { << 97, 98, 99 >>, << 120, 98, 99, 120, 97, 99, 120, 99 >>,
    << 99, 65, 98, 99, 98, 99 >>, << 32, 97 >>, << 98, 98, 97, 98 >>, << >> }

ExtractGroupLists ==
  { NullGroups, << >>, << 0 >>, << 1 >>, << 2 >>, << 1, 2 >>, << 2, 1 >>, << 3 >>, << 3, 2 >> }

ExtractPatternSet == DataPatternSet \cup {"(a)?", "[ab](b)", "a(?=(b))"}

ExtractInit ==
  /\ ServiceInit
  /\ extraction \in { [text |-> t, pattern |-> p, matchGroups |-> mg,
                        applied |-> FALSE, out |-> << >>]
                       : t \in ExtractTexts, p \in ExtractPatternSet, mg \in ExtractGroupLists }
  /\ filterCall = NoFilterCall /\ wrapper = NoWrapper /\ batch = NoBatch

\* extractMatches(text, regex, matchGroups) is called with the pattern
\* compiled as executeGrepSearch compiles it
ExtractMatchesCalled ==
  /\ ~extraction.applied
  /\ extraction' = [extraction EXCEPT
                      !.applied = TRUE,
                      !.out = extractMatches(extraction.text,
                                             RegExpOf(extraction.pattern, {"i"}),
                                             extraction.matchGroups)]
  /\ UNCHANGED << isGrepActive, stopPromise, stopResolve, stopWaiters, grepStore,
                  microtasks, pc, pattern, options, after, matches, result,
                  stopPc, stopResult, stopHit, failure, sentMatchCount, events,
                  progress, queries, processedRequestID, downloadResult,
                  filterCall, wrapper, batch >>

ExtractNext == ExtractMatchesCalled

ExtractSpec == ExtractInit /\ [][ExtractNext]_vars

(* --------------------------- buildRegexFilter ------------------------- *)
\* The filter is a string; it is kept as the sequence of the pieces the
\* template literals put together: literal text of the source, and text that
\* comes from an argument (code units of the pattern source, or the custom
\* filter).
Lit(s) == [kind |-> "lit", lit |-> s, units |-> << >>]
Units(u) == [kind |-> "units", lit |-> "", units |-> u]
Custom(s) == [kind |-> "custom", lit |-> s, units |-> << >>]

CLEANUP_EXTENSIONS ==
  << "%.apng", "%.avif", "%.gif", "%.jpg", "%.jpeg", "%.pjpeg", "%.pjp", "%.png",
     "%.svg", "%.webp", "%.bmp", "%.ico", "%.cur", "%.tif", "%.tiff", "%.mp4",
     "%.mp3", "%.ttf" >>

\* String.prototype.replace with a global pattern of one code unit
RECURSIVE ReplaceAll(_, _, _)
ReplaceAll(s, unit, by) ==
  IF s = << >> THEN << >>
  ELSE (IF Head(s) = unit THEN by ELSE << Head(s) >>) \o ReplaceAll(Tail(s), unit, by)

\* regex.source.replace(/\\/g, "\\\\").replace(/"/g, '\\"')
EscapeRegexSource(source) ==
  ReplaceAll(ReplaceAll(source, 92, << 92, 92 >>), 34, << 92, 34 >>)

\* Array.prototype.join on an array of piece sequences
RECURSIVE Join(_, _)
Join(parts, sep) ==
  IF parts = << >> THEN << >>
  ELSE IF Len(parts) = 1 THEN parts[1]
  ELSE parts[1] \o << Lit(sep) >> \o Join(Tail(parts), sep)

\* if (customHTTPQL): neither undefined nor the empty string
Truthy(customHTTPQL) == customHTTPQL.given /\ customHTTPQL.text # ""

\* the loop over CLEANUP_EXTENSIONS, from extension k on
RECURSIVE WithExtensions(_, _)
WithExtensions(regexFilter, k) ==
  IF k > Len(CLEANUP_EXTENSIONS) THEN regexFilter
  ELSE WithExtensions(regexFilter \o << Lit(" and "), Lit("req.ext.nlike:\""),
                                        Lit(CLEANUP_EXTENSIONS[k]), Lit("\"") >>, k + 1)

\* buildRegexFilter(regex, options), for the source of regex
buildRegexFilter(source, o) ==
  LET escapedRegexStr == EscapeRegexSource(source)
      filters ==
        (IF o.includeRequests
           THEN << << Lit("req.raw.regex:\""), Units(escapedRegexStr), Lit("\"") >> >>
           ELSE << >>)
        \o (IF o.includeResponses
              THEN << << Lit("resp.raw.regex:\""), Units(escapedRegexStr), Lit("\"") >> >>
              ELSE << >>)
      combined == IF Len(filters) > 0
                    THEN << Lit("(") >> \o Join(filters, " or ") \o << Lit(")") >>
                    ELSE << >>
      withCustom == IF Truthy(o.customHTTPQL)
                      THEN << Custom(o.customHTTPQL.text), Lit(" and ") >> \o combined
                      ELSE combined
      withSize == IF o.skipLargeResponses
                    THEN withCustom \o << Lit(" and "), Lit("resp.len.lt:10485760") >>
                    ELSE withCustom \o << Lit(" and "), Lit("resp.len.lt:104857600") >>
  IN WithExtensions(withSize, 1)

\* pattern sources: abc, a"b, \d" (backslash, d, quote) and a\\ (a, two
\* backslashes)
FilterSources ==
  { << 97, 98, 99 >>, << 97, 34, 98 >>, << 92, 100, 34 >>, << 97, 92, 92 >> }

\* customHTTPQL: undefined, the empty string, a filter expression
FilterCustoms ==
  { [given |-> FALSE, text |-> ""], [given |-> TRUE, text |-> ""],
    [given |-> TRUE, text |-> "req.method.eq:\"GET\""] }

FilterInit ==
  /\ ServiceInit /\ extraction = NoExtraction
  /\ wrapper = NoWrapper /\ batch = NoBatch
  /\ filterCall \in { [source |-> src, includeRequests |-> ir, includeResponses |-> ip,
                        customHTTPQL |-> cu, skipLargeResponses |-> sk,
                        applied |-> FALSE, out |-> << >>]
                       : src \in FilterSources, ir \in BOOLEAN, ip \in BOOLEAN,
                         cu \in FilterCustoms, sk \in BOOLEAN }

serviceVars ==
  << isGrepActive, stopPromise, stopResolve, stopWaiters, grepStore,
     microtasks, pc, pattern, options, after, matches, result,
     stopPc, stopResult, stopHit, failure, sentMatchCount, events,
     progress, queries, processedRequestID, downloadResult >>

\* buildRegexFilter(regex, options) is called
BuildRegexFilterCalled ==
  /\ ~filterCall.applied
  /\ filterCall' = [filterCall EXCEPT
                      !.applied = TRUE,
                      !.out = buildRegexFilter(filterCall.source, filterCall)]
  /\ UNCHANGED << serviceVars, extraction, wrapper, batch >>

FilterNext == BuildRegexFilterCalled

FilterSpec == FilterInit /\ [][FilterNext]_vars

(* ----------------- executeQueryWithCancellationCheck ------------------ *)
\* One call of the wrapper: `active` is what isActiveCheck() returns,
\* `operation` the state of the promise passed in, `timer` the interval,
\* `outcome` and `value` the state of the promise returned, `calls` the
\* number of calls of resolve and reject, `ticks` the number of runs of the
\* interval callback, `delivered` whether the caller's await has resumed.
MaxTicks == 3

\* the pages or the error the operation can settle with
OperationResults ==
  { [how |-> "fulfilled", value |-> v] : v \in {"page 1", "page 2", "page 3"} }
    \cup { [how |-> "rejected", value |-> HostError] }

\* clearInterval(checkInterval)
ClearInterval(w) == [w EXCEPT !.timer = "cleared"]

\* resolve(value) or reject(value) of the promise returned: only the first
\* call settles it
Settle(w, how, value) ==
  [w EXCEPT !.calls = @ + 1,
            !.outcome = IF w.outcome = "pending" THEN how ELSE @,
            !.value = IF w.outcome = "pending" THEN value ELSE @]

\* (mutant) the callback rejects and leaves the interval running
IntervalCallback_running(w) ==
  IF ~w.active THEN Settle(w, "rejected", Stopped) ELSE w

\* the interval callback
IntervalCallback(w) ==
  IF ~w.active THEN Settle(ClearInterval(w), "rejected", Stopped) ELSE w

\* what follows `await promise`: the try branch or the catch clause
AfterAwait(w, r) ==
  IF r.how = "fulfilled"
    THEN Settle(ClearInterval(w), "fulfilled", r.value)
    ELSE Settle(ClearInterval(w), "rejected", r.value)

\* the promise returned has settled and the caller's await has yet to resume
ResumePending == wrapper.outcome # "pending" /\ ~wrapper.delivered

WrapperInit ==
  /\ ServiceInit /\ extraction = NoExtraction
  /\ filterCall = NoFilterCall /\ batch = NoBatch
  /\ wrapper = NoWrapper

\* executeQueryWithCancellationCheck(queryPromise, () => isGrepActive) is
\* called at a loop head, where the flag is set: the interval is started and
\* the promise awaited
WrapperCalled ==
  /\ wrapper.phase = "none"
  /\ wrapper' = [wrapper EXCEPT !.phase = "called", !.timer = "set"]
  /\ UNCHANGED << serviceVars, extraction, filterCall, batch >>

\* job: stopGrep clears the run flag, or a grepRequests call sets it
FlagChanges ==
  /\ wrapper.phase = "called" /\ ~ResumePending
  /\ wrapper' = [wrapper EXCEPT !.active = ~@]
  /\ UNCHANGED << serviceVars, extraction, filterCall, batch >>

\* job: 100 ms have passed and the interval is set: its callback runs
IntervalFires ==
  /\ wrapper.phase = "called" /\ ~ResumePending
  /\ wrapper.timer = "set"
  /\ wrapper.ticks < MaxTicks
  /\ wrapper' = IntervalCallback([wrapper EXCEPT !.ticks = @ + 1])
  /\ UNCHANGED << serviceVars, extraction, filterCall, batch >>

\* job: the operation settles; the async executor resumes in a microtask of
\* the same job
OperationSettles ==
  /\ wrapper.phase = "called" /\ ~ResumePending
  /\ wrapper.operation = "pending"
  /\ \E r \in OperationResults :
       wrapper' = AfterAwait([wrapper EXCEPT !.operation = r.how,
                                             !.operationValue = r.value], r)
  /\ UNCHANGED << serviceVars, extraction, filterCall, batch >>

\* microtask: the caller's await of the promise returned resumes
CallerResumes ==
  /\ ResumePending
  /\ wrapper' = [wrapper EXCEPT !.delivered = TRUE]
  /\ UNCHANGED << serviceVars, extraction, filterCall, batch >>

WrapperNext ==
  \/ WrapperCalled
  \/ FlagChanges
  \/ IntervalFires
  \/ OperationSettles
  \/ CallerResumes

WrapperSpec == WrapperInit /\ [][WrapperNext]_vars

(* ------------------- batch secret search (frontend) ------------------- *)
\* length of the pattern list
NumPatterns == 3

\* TRUFFLEHOG_PATTERNS: each pattern either compiles with new RegExp or not
PatternLists == [1..NumPatterns -> {"valid", "invalid"}]

\* the computed progress: Math.round(patternsCompleted / totalPatterns * 100)
BatchProgress(b) ==
  IF b.totalPatterns = 0 THEN 0
  ELSE (200 * b.patternsCompleted + b.totalPatterns) \div (2 * b.totalPatterns)

\* what follows the loop: the results dialog, and the finally clause
AfterLoop(b) ==
  [b EXCEPT !.phase = "finished", !.showResultsDialog = TRUE,
            !.isSearching = FALSE, !.currentPattern = 0,
            !.abortController = "null", !.index = 0]

\* the for loop from pattern i on, up to its next await or its end: the
\* abort test, the validation of the pattern (an invalid one is skipped by
\* `continue`), the start of the search
RECURSIVE LoopFrom(_, _)
LoopFrom(b, i) ==
  IF i > Len(b.patterns) THEN AfterLoop(b)
  ELSE IF b.aborted THEN AfterLoop([b EXCEPT !.cancelled = TRUE])
  ELSE IF b.patterns[i] = "invalid" THEN LoopFrom([b EXCEPT !.currentPattern = i], i + 1)
  ELSE [b EXCEPT !.phase = "searching", !.index = i, !.currentPattern = i,
                 !.started = Append(@, i), !.inFlight = @ + 1]

\* lines 61-67: the status is reset and a new AbortController made
Started(b, patterns) ==
  [b EXCEPT !.patterns = patterns, !.isSearching = TRUE, !.cancelled = FALSE,
            !.patternsCompleted = 0, !.totalPatterns = Len(patterns),
            !.searchResults = << >>, !.abortController = "set", !.aborted = FALSE,
            !.started = << >>]

\* lines 103-117: the result is kept if it has matches, an error is caught;
\* then status.patternsCompleted++
AfterSearch(b, outcome) ==
  [b EXCEPT !.inFlight = @ - 1,
            !.searchResults = IF outcome = "matches" THEN Append(@, b.index) ELSE @,
            !.patternsCompleted = @ + 1]

BatchInit ==
  /\ ServiceInit /\ extraction = NoExtraction
  /\ filterCall = NoFilterCall /\ wrapper = NoWrapper
  /\ batch = NoBatch

\* confirmAndStartSearch(options), from the warning dialog (the progress
\* dialog, modal while isSearching, hides it during a batch)
confirmAndStartSearch ==
  /\ ~batch.isSearching
  /\ \E patterns \in PatternLists : batch' = LoopFrom(Started(batch, patterns), 1)
  /\ UNCHANGED << serviceVars, extraction, filterCall, wrapper >>

\* the awaited searchGrepRequests returns a result with or without matches,
\* or throws; the loop goes on to its next await or its end
SearchReturns ==
  /\ batch.phase = "searching"
  /\ \E outcome \in {"matches", "nothing", "throws"} :
       batch' = LoopFrom(AfterSearch(batch, outcome), batch.index + 1)
  /\ UNCHANGED << serviceVars, extraction, filterCall, wrapper >>

\* cancelSearch(): aborts the controller if there is one
cancelSearch ==
  /\ batch' = IF batch.abortController # "null"
                THEN [batch EXCEPT !.aborted = TRUE]
                ELSE batch
  /\ UNCHANGED << serviceVars, extraction, filterCall, wrapper >>

BatchNext ==
  \/ confirmAndStartSearch
  \/ SearchReturns
  \/ cancelSearch

BatchSpec == BatchInit /\ [][BatchNext]_vars

(* ------------------------------- claims ------------------------------- *)

\* C1: at most one search run is in progress at any time: no two calls are
\* both past the start guard with a host call of their run outstanding.
InFlight(c) == pc[c] \in {"awaitProject", "awaitLastId", "awaitQuery"}
C1_AtMostOneRun == Cardinality({c \in SearchIds : InFlight(c)}) <= 1

C3_StopEventuallyReturns ==
  \A t \in StopIds :
    (stopPc[t] = "awaitStop")
      ~> (stopPc[t] = "done" /\ stopResult[t].message = ScanStopped)

\* C4: every grepRequests call eventually returns an envelope.
C4_SearchEventuallyReturns ==
  \A c \in SearchIds : (pc[c] # "idle") ~> (pc[c] = "done")

\* C5: the run flag of a run that is running (and stays running) goes from
\* active to inactive only in a step of a stopGrep call, never through the
\* cleanup of another run.
C5_FlagClearedOnlyByStopOrOwnEnd ==
  [][\A c \in SearchIds :
       (Running(c) /\ pc'[c] # "done" /\ isGrepActive /\ ~isGrepActive')
         => \E t \in StopIds : stopPc[t] = "idle" /\ stopPc'[t] = "awaitStop"]_vars

\* C6: a run whose flag was flipped by stopGrep before it ended never returns
\* a matchesCount.
C6_StoppedRunReturnsNoCount ==
  \A c \in SearchIds :
    (pc[c] = "done" /\ c \in stopHit) => result[c].matchesCount = -1

\* C7: when a run terminates, in whatever way, the run flag is inactive, and a
\* grepRequests call that arrives while the flag is inactive is accepted (it
\* starts or waits for the pending stop) instead of being rejected.
C7_RunEndsIdle ==
  [][\A c \in SearchIds :
       /\ (Running(c) /\ pc'[c] = "done") => ~isGrepActive'
       /\ (pc[c] = "idle" /\ pc'[c] # "idle" /\ ~isGrepActive /\ pattern'[c] # "invalid")
            => pc'[c] \in {"awaitProject", "awaitStop"}]_vars

C7_Witness ==
  \E c \in SearchIds :
    pc[c] = "done" /\ failure[c] = "compile" /\ ~isGrepActive

\* C8 (as claimed): a run that finds no project, or no request, returns the
\* message as the error of the envelope.
C8_PreconditionIsEnvelopeError ==
  \A c \in SearchIds :
    /\ (pc[c] = "done" /\ failure[c] = "noProject") => result[c].error = NoProject
    /\ (pc[c] = "done" /\ failure[c] = "noRequests") => result[c].error = NoRequests

\* C8 (amended): a run that finds no project, or no request, returns a data
\* envelope whose data.error is the message; the envelope has no error and
\* no matchesCount.
C8_PreconditionIsDataError ==
  \A c \in SearchIds :
    /\ (pc[c] = "done" /\ failure[c] = "noProject")
         => result[c] = [kind |-> "data", error |-> "", dataError |-> NoProject,
                         matchesCount |-> -1]
    /\ (pc[c] = "done" /\ failure[c] = "noRequests")
         => result[c] = [kind |-> "data", error |-> "", dataError |-> NoRequests,
                         matchesCount |-> -1]

C8_Witness ==
  /\ \E c \in SearchIds : pc[c] = "done" /\ failure[c] = "noRequests"
                          /\ result[c].dataError = NoRequests

\* C9: no failure raised inside a run leaves grepRequests as an exception: a
\* rejected host call, an uncompilable pattern and the stopped error each end
\* in a returned envelope whose error is the failure's message.
FailureMessage(f) ==
  CASE f = "hostError" -> HostError
    [] f = "compile" -> InvalidRegExp
    [] f = "stopped" -> Stopped
    [] OTHER -> ""

C9_NoExceptionEscapes ==
  \A c \in SearchIds :
    pc[c] = "done" =>
      /\ result[c].kind \in {"data", "error"}
      /\ failure[c] \in {"hostError", "compile", "stopped"}
           => result[c] = ErrorEnvelope(FailureMessage(failure[c]))

C9_Witness ==
  \E c \in SearchIds :
    pc[c] = "done" /\ failure[c] = "stopped" /\ result[c] = ErrorEnvelope(Stopped)

\* C10: with maxResults = k > 0 the run's match map never holds more than k
\* entries and the returned matchesCount is at most k.
C10_MaxResultsBound ==
  \A c \in SearchIds :
    options[c].maxResults > 0 =>
      /\ Len(matches[c]) <= options[c].maxResults
      /\ result[c].matchesCount <= options[c].maxResults

C10_Witness ==
  \E c \in SearchIds :
    /\ pc[c] = "done" /\ options[c].maxResults = 1 /\ result[c].matchesCount = 1

(* --------------------- the records a run goes through ------------------ *)
\* the record with the given request id
Record(id) == CHOOSE item \in {AllItems[i] : i \in 1..Len(AllItems)} : item.id = id

\* the raw matches a run with pattern p and options o extracts when it goes
\* through every record: per record, request matches then response matches
RECURSIVE RawMatches(_, _, _)
RawMatches(items, p, o) ==
  IF items = << >> THEN << >>
  ELSE (IF o.onlyInScope /\ ~Head(items).inScope THEN << >>
        ELSE findMatchesInRequestResponse(Head(items), RegExpOf(p, {"i"}), o))
       \o RawMatches(Tail(items), p, o)

NoDuplicateValues(m) ==
  \A i, j \in 1..Len(m) : i # j => m[i].value # m[j].value

\* C11: no two entries of the result store have the same value (compared
\* exactly: "a" and "A" differ), no two entries of a run's map do either, and
\* the matchesCount a run returns is at most the number of raw matches it can
\* extract.
C11_ValuesAreUnique ==
  /\ NoDuplicateValues(grepStore)
  /\ \A c \in SearchIds :
       /\ NoDuplicateValues(matches[c])
       /\ result[c].matchesCount > 0 =>
            result[c].matchesCount <= Len(RawMatches(AllItems, pattern[c], options[c]))

\* a completed run counted "a" once although three raw matches trim to it
\* (two in record 1, one in record 3), and the store holds both "a" and "A"
C11_Witness ==
  \E c \in SearchIds :
    /\ pc[c] = "done" /\ result[c].matchesCount = 7
    /\ Len(RawMatches(AllItems, pattern[c], options[c])) = 11
    /\ \E i, j \in 1..Len(grepStore) :
         grepStore[i].value = << 97 >> /\ grepStore[j].value = << 65 >>

\* what lines 268-283 make of a raw match: whether it survives trimming,
\* cleanup and the transform, and its final value
FinalOf(mr, o) ==
  LET trimmed == Trim(mr.value)
      t == IF o.transformScript # NoScript THEN applyTransform(trimmed, o.transformScript)
           ELSE [isNull |-> FALSE, value |-> trimmed]
      v == IF o.transformScript # NoScript THEN Trim(t.value) ELSE trimmed
  IN [kept |-> ~CleanupRejects(o, trimmed) /\ Len(trimmed) > 0 /\ ~t.isNull /\ Len(v) > 0,
      value |-> v]

\* the match results a run holds: in its map, in the store, in its events
Held(c) ==
  {matches[c][i] : i \in 1..Len(matches[c])}
    \cup {grepStore[i] : i \in 1..Len(grepStore)}
    \cup UNION {{events[c][k].items[i] : i \in 1..Len(events[c][k].items)}
                : k \in 1..Len(events[c])}

\* e carries the request id, source and indices of the first raw match, in
\* processing order, whose final value is e's value
IsFirstSeen(e, p, o) ==
  LET cands == RawMatches(AllItems, p, o)
      hits == {i \in 1..Len(cands) : FinalOf(cands[i], o).kept
                                      /\ FinalOf(cands[i], o).value = e.value}
  IN /\ hits # {}
     /\ LET first == CHOOSE i \in hits : \A j \in hits : i <= j
        IN e = [cands[first] EXCEPT !.value = e.value]

\* C12: every match result a run holds (in its map, in the store, in an
\* event) is, for its final value, the first raw match in processing order:
\* pages in fetch order, records in page order, request before response,
\* left to right.  Holding in every state, no later match replaces it.
C12_FirstSeenIsKept ==
  pc[1] # "idle" => \A e \in Held(1) : IsFirstSeen(e, pattern[1], options[1])

\* the run has gone through record 3, whose request holds "a", and through
\* the response of record 1, which holds "a" too; the entry for "a" is still
\* the one of the request of record 1
C12_Witness ==
  /\ pc[1] = "awaitQuery" /\ after[1] = 2
  /\ options[1].includeRequests /\ options[1].includeResponses
  /\ \E i \in 1..Len(grepStore) :
       grepStore[i] = [value |-> << 97 >>, requestId |-> 1, source |-> "request",
                       startIndex |-> 0, endIndex |-> 1]

\* C13: with onlyInScope set, no match result a run holds (map, store,
\* events) comes from a record the host reports as out of scope, and the
\* count the run returns is the count of a run over the in-scope records.
C13_OutOfScopeContributesNothing ==
  (pc[1] # "idle" /\ options[1].onlyInScope) =>
    /\ \A e \in Held(1) : Record(e.requestId).inScope
    /\ pc[1] = "done" /\ result[1].matchesCount >= 0
         => result[1].matchesCount = Len(grepStore)

\* record 2 is out of scope and its request holds "c", which the pattern
\* matches; the run went through its page and holds matches of record 1 only
C13_Witness ==
  /\ pc[1] = "awaitQuery" /\ after[1] = 1 /\ options[1].onlyInScope
  /\ pattern[1] = "ok" /\ options[1].includeRequests
  /\ Len(extractMatches(Record(2).requestRaw, RegExpOf("ok", {"i"}), << 0 >>)) > 0
  /\ matches[1] # << >>
  /\ \A i \in 1..Len(matches[1]) : matches[1][i].requestId = 1

\* the extracted matches a held match result can come from: those of the
\* text it names (record and source) at the indices it carries
Origins(e, p, o) ==
  LET item == Record(e.requestId)
      text == IF e.source = "request" THEN item.requestRaw ELSE item.responseRaw
      ems == extractMatches(text, RegExpOf(p, {"i"}), o.matchGroups)
  IN {ems[i] : i \in {j \in 1..Len(ems) : /\ ems[j].startIndex = e.startIndex
                                             /\ ems[j].endIndex = e.endIndex}}

\* C14: with cleanupOutput set, every match result a run holds (map, store,
\* events) comes from an extracted match whose trimmed value is printable
\* ASCII only, and the count returned counts held results only.
C14_NonPrintableDiscarded ==
  (pc[1] # "idle" /\ options[1].cleanupOutput) =>
    /\ \A e \in Held(1) :
         \E em \in Origins(e, pattern[1], options[1]) :
           \A i \in 1..Len(Trim(em.value)) :
             Trim(em.value)[i] >= 32 /\ Trim(em.value)[i] <= 126
    /\ pc[1] = "done" /\ result[1].matchesCount >= 0
         => result[1].matchesCount = Len(grepStore)

\* the response of record 3 holds a NUL that the pattern matches; the run
\* has gone through record 3 (it holds "d") with cleanupOutput set
C14_Witness ==
  /\ pc[1] = "awaitQuery" /\ after[1] = 2 /\ options[1].cleanupOutput
  /\ pattern[1] = "ok" /\ options[1].includeResponses
  /\ \E i \in 1..Len(extractMatches(Record(3).responseRaw, RegExpOf("ok", {"i"}), << 0 >>)) :
       extractMatches(Record(3).responseRaw, RegExpOf("ok", {"i"}), << 0 >>)[i].value = << 0 >>
  /\ \E i \in 1..Len(matches[1]) : matches[1][i].value = << 100 >>

UpperCaseScript == "return match.toUpperCase();"

\* C15: with the transform script `return match.toUpperCase();` every match
\* result a run holds has the value trim(toUpperCase(trim(x))) of an
\* extracted match x of the text it names, found at the indices it carries
\* (request id, source and indices are those of the untransformed match),
\* and no two results of the map or the store have the same value.
C15_TransformedValueOriginalPosition ==
  (pc[1] # "idle" /\ options[1].transformScript = UpperCaseScript) =>
    /\ \A e \in Held(1) :
         \E em \in Origins(e, pattern[1], options[1]) :
           e.value = Trim(ToUpperCase(Trim(em.value)))
    /\ NoDuplicateValues(matches[1]) /\ NoDuplicateValues(grepStore)

\* record 1 holds "a" (request, index 0) and "A" (response, index 3): both
\* transform to "A" and the run holds one result, at the place of "a"; the
\* result "D" comes from " d" and keeps the two-unit span of " d"
C15_Witness ==
  /\ pc[1] = "awaitQuery" /\ after[1] = 2
  /\ options[1].transformScript = UpperCaseScript /\ pattern[1] = "ok"
  /\ options[1].includeRequests /\ options[1].includeResponses
  /\ \E i \in 1..Len(grepStore) :
       grepStore[i] = [value |-> << 65 >>, requestId |-> 1, source |-> "request",
                       startIndex |-> 0, endIndex |-> 1]
  /\ \E i \in 1..Len(grepStore) :
       grepStore[i] = [value |-> << 68 >>, requestId |-> 3, source |-> "request",
                       startIndex |-> 3, endIndex |-> 5]

\* the trimmed values of the raw matches that reach the transform: they are
\* not empty and pass the cleanup test
Survivors(p, o) ==
  LET cands == RawMatches(AllItems, p, o)
      ok(v) == Len(v) > 0 /\ (o.cleanupOutput => \A i \in 1..Len(v) : v[i] >= 32 /\ v[i] <= 126)
  IN {Trim(cands[i].value) : i \in {j \in 1..Len(cands) : ok(Trim(cands[j].value))}}

StoredValues == {grepStore[i].value : i \in 1..Len(grepStore)}

\* the run went through every page, with no limit on the number of results
CompleteRun(c) == pc[c] = "done" /\ failure[c] = "" /\ options[c].maxResults = 0

\* C16: a script that throws (throw 1;) or does not compile (return ()
\* leaves every match with its trimmed extracted value, and every such match
\* is stored; a script that returns null (return null;), undefined (return;)
\* or a blank string (return ' ';) leaves the run with no match; a script
\* that returns a number (return 1;) stores its string form "1"; in each
\* case a run whose host calls succeed returns a count, not an error.
C16_TransformFailsOpen ==
  pc[1] # "idle" =>
    LET script == options[1].transformScript IN
    /\ script \in {"throw 1;", "return ("} =>
         /\ \A e \in Held(1) :
              \E em \in Origins(e, pattern[1], options[1]) : e.value = Trim(em.value)
         /\ CompleteRun(1) => StoredValues = Survivors(pattern[1], options[1])
    /\ script \in {"return null;", "return;", "return ' ';"} => Held(1) = {}
    /\ script = "return 1;" =>
         /\ \A e \in Held(1) : e.value = << 49 >>
         /\ (CompleteRun(1) /\ Survivors(pattern[1], options[1]) # {}) => Len(grepStore) = 1
    /\ (pc[1] = "done" /\ failure[1] = "") =>
         result[1].kind = "data" /\ result[1].matchesCount = Len(grepStore)

\* a complete run with a script that does not compile returned the count of
\* the matches it stored with their original values
C16_Witness ==
  /\ CompleteRun(1) /\ options[1].transformScript = "return ("
  /\ result[1].matchesCount = 7 /\ Len(grepStore) = 7
  /\ \E i \in 1..Len(grepStore) : grepStore[i].value = << 100 >>

\* group g of the occurrence m participated in the match (group 0 is the
\* whole match)
Participated(m, g) == g = 0 \/ (g \in 1..Len(m.groups) /\ m.groups[g].defined)

\* the value the claim gives for an occurrence: the whole match for an empty
\* or absent list, else the group of the first listed index that
\* participated, else the whole match
ExpectedValue(m, matchGroups) ==
  IF matchGroups = NullGroups \/ matchGroups = << >> THEN m.whole
  ELSE LET ks == {k \in 1..Len(matchGroups) : Participated(m, matchGroups[k])} IN
       IF ks = {} THEN m.whole
       ELSE LET k == CHOOSE i \in ks : \A j \in ks : i <= j
            IN IF matchGroups[k] = 0 THEN m.whole ELSE m.groups[matchGroups[k]].value

\* out has one extracted match per occurrence, in order, with the value the
\* claim gives
OnePerOccurrence(out, occs, matchGroups) ==
  /\ Len(out) = Len(occs)
  /\ \A i \in 1..Len(occs) : out[i].value = ExpectedValue(occs[i], matchGroups)

\* the occurrences of the regex in the text: those of the scan extractMatches
\* makes, text.matchAll(new RegExp(regex, "g"))
Occurrences(x) == MatchAll(RegExpFrom(RegExpOf(x.pattern, {"i"}), {"g"}), x.text, 0)

C18_SourcesFollowOptions ==
  pc[1] # "idle" =>
    \A e \in Held(1) :
      /\ e.source \in {"request", "response"}
      /\ e.source = "request" => options[1].includeRequests
      /\ e.source = "response" =>
           options[1].includeResponses /\ Record(e.requestId).hasResponse
      /\ Origins(e, pattern[1], options[1]) # {}

\* "b" occurs in the requests of records 1 and 4 and in no response; a run
\* with includeRequests unset went through records 1 to 3 and holds matches,
\* none of them "b"
C18_Witness ==
  /\ pc[1] = "awaitQuery" /\ after[1] = 2 /\ pattern[1] = "ok"
  /\ ~options[1].includeRequests /\ options[1].includeResponses
  /\ options[1].transformScript = NoScript
  /\ matches[1] # << >>
  /\ \A i \in 1..Len(matches[1]) :
       matches[1][i].source = "response" /\ matches[1][i].value # << 98 >>

\* the texts a run with options o searches, in processing order
RECURSIVE SearchedTexts(_, _)
SearchedTexts(items, o) ==
  IF items = << >> THEN << >>
  ELSE LET item == Head(items) IN
       (IF o.onlyInScope /\ ~item.inScope THEN << >>
        ELSE (IF o.includeRequests THEN << item.requestRaw >> ELSE << >>)
             \o (IF o.includeResponses /\ item.hasResponse
                   THEN << item.responseRaw >> ELSE << >>))
       \o SearchedTexts(Tail(items), o)

\* C19: the pattern is matched without regard to letter case and the value
\* kept is the text as it appears: after a complete run that takes whole
\* matches and neither cleans nor transforms them, every occurrence of the
\* pattern under the i flag in a searched text has its trimmed text among
\* the stored values, if that is not empty.
C19_CaseInsensitiveMatch ==
  (/\ CompleteRun(1)
   /\ options[1].transformScript = NoScript /\ ~options[1].cleanupOutput
   /\ options[1].matchGroups = << 0 >>) =>
    LET texts == SearchedTexts(AllItems, options[1]) IN
    \A k \in 1..Len(texts) :
      LET occs == MatchAll(RegExpOf(pattern[1], {"g", "i"}), texts[k], 0) IN
      \A i \in 1..Len(occs) :
        Trim(occs[i].whole) # << >> => Trim(occs[i].whole) \in StoredValues

\* the number of new matches a matches event announces
EventSize(ev) == IF ev.array THEN Len(ev.items) ELSE ev.number

\* the number of matches sent by the first k events of a run
RECURSIVE SentBy(_, _)
SentBy(evs, k) == IF k = 0 THEN 0 ELSE SentBy(evs, k - 1) + EventSize(evs[k])

\* C20: a matches event of a run carries the array of the new match results
\* if and only if the number of matches sent before it in the run is at most
\* the limit (25000 in the code, SentArrayLimit here); otherwise it carries
\* their number only.  Every event announces at least one match.
C20_ArrayUntilLimit ==
  \A c \in SearchIds :
    \A k \in 1..Len(events[c]) :
      /\ events[c][k].array <=> SentBy(events[c], k - 1) <= SentArrayLimit
      /\ EventSize(events[c][k]) > 0

\* a run sent four matches in the array of its first event, over the limit,
\* and its second and third events carry counts
C20_Witness ==
  /\ Len(events[1]) = 3
  /\ events[1][1].array /\ Len(events[1][1].items) = 4
  /\ ~events[1][2].array /\ events[1][2].number = 2
  /\ ~events[1][3].array /\ events[1][3].number = 1

(* ---------------------------------------------------------------------- *)
\* a run of call c ends in this step: its finally clause runs
Terminates(c) == Running(c) /\ pc'[c] = "done"

\* C21: downloadResults() returns an error if and only if the Result Store is
\* empty and otherwise every stored match in insertion order; when a run ends
\* by stop() or by an error, what downloadResults() then returns is what that
\* run had found (an error if it had found nothing).
C21_DownloadReturnsRunMatches ==
  [][ /\ downloadResult' # NoDownload =>
           /\ downloadResult'.kind = "error" <=> grepStore' = << >>
           /\ downloadResult'.kind = "data" => downloadResult'.data = grepStore'
      /\ \A c \in SearchIds :
           Terminates(c) /\ failure[c] \in {"stopped", "hostError"} =>
             DownloadEnvelope(grepStore').data = matches[c] ]_vars

\* every entry of store s is at the same place in store t
IsPrefix(s, t) == Len(s) <= Len(t) /\ SubSeq(t, 1, Len(s)) = s

\* C22: between the start of a run and its termination the Result Store never
\* loses an entry, whatever calls of search() and stop() are interleaved: a
\* step taken while a run is under way leaves every stored entry in place.
C22_StoreNeverShrinksMidRun ==
  [][ \A c \in SearchIds :
        Running(c) /\ pc'[c] \notin {"idle", "awaitStop", "done"}
        => IsPrefix(grepStore, grepStore') ]_vars

\* C23: stop() called when no run is Running returns at once a result that is
\* not an error and carries a message, and leaves the run flag, the pending
\* stop promise, its resolver and waiters, and the Result Store as they were.
C23_IdleStopIsNoOp ==
  [][ \A t \in StopIds :
        /\ stopPc[t] = "idle" /\ stopPc'[t] # "idle"
        /\ \A c \in SearchIds : ~Running(c)
        => /\ stopPc'[t] = "done"
           /\ stopResult'[t].kind = "data" /\ stopResult'[t].message # ""
           /\ UNCHANGED << isGrepActive, stopPromise, stopResolve, stopWaiters, grepStore >> ]_vars

\* stop() has answered with the store of an earlier run in place and no run Running
C23_Witness ==
  \E t \in StopIds :
    /\ stopPc[t] = "done" /\ stopResult[t].message = NoScanRunning
    /\ \A c \in SearchIds : ~Running(c)
    /\ grepStore # << >>

\* id of the last record of the first k pages of the host store (0 for none)
LastIdOfPages(k) ==
  LET items == Flatten(SubSeq(Pages, 1, k))
  IN IF items = << >> THEN 0 ELSE items[Len(items)].id

\* C24: within one run the progress values emitted are non-decreasing
\* integers between 0 and 99, the first is 0, and the value emitted at the
\* head of an iteration is min(floor(processedId / lastId * 100), 99) for the
\* id of the last record processed before it.
C24_ProgressFollowsProcessedId ==
  \A c \in SearchIds :
    LET p == progress[c] IN
    /\ p # << >> => p[1] = 0
    /\ \A i \in 1..Len(p) : p[i] \in 0..99
    /\ \A i \in 1..(Len(p) - 1) : p[i] <= p[i + 1]
    /\ \A i \in 2..Len(p) :
         LET percent == (LastIdOfPages(i - 2) * 100) \div LastRequestId
         IN p[i] = IF percent < 99 THEN percent ELSE 99

\* a run has emitted 0, 0, 66 and the capped 99
C24_Witness == progress[1] = << 0, 0, 66, 99 >>

\* C25: within a run the page queries are issued one at a time and in cursor
\* order: the first has no cursor (0), each later one has the end cursor of
\* the page the query before it fetched, so no page is fetched twice; and a
\* query is in flight only when the page before it is fully processed (its
\* cursor is the run's cursor and every match found so far is announced).
C25_QueriesInCursorOrder ==
  \A c \in SearchIds :
    LET q == queries[c] IN
    /\ \A k \in 1..Len(q) : q[k] = k - 1
    /\ pc[c] = "awaitQuery" =>
         /\ q # << >> /\ q[Len(q)] = after[c]
         /\ sentMatchCount[c] = Len(matches[c])

\* the third page is being fetched with the end cursor of the second
C25_Witness == pc[1] = "awaitQuery" /\ queries[1] = << 0, 1, 2 >>

\* C26: when stop() has flipped the run flag while a page query of a run is in
\* flight, the next poll of the guarded await finds the flag inactive and
\* fails the await with the stopped error, whether or not the query settles:
\* for as long as the run waits for that query the flag stays inactive.
C26_StoppedQueryFailsAtNextPoll ==
  [][ \A c \in SearchIds :
        /\ c \in stopHit /\ pc[c] = "awaitQuery" /\ ~isGrepActive
        /\ pc'[c] = "awaitQuery"
        => ~isGrepActive' ]_vars

\* C27: once stop() has flipped the run flag of a run, that run inserts no
\* further match (into its map and the Result Store) and emits no further
\* matches event, so that its last insertion and emission are made when
\* stop() returns success.
C27_StoppedRunAddsNothing ==
  [][ \A c \in SearchIds :
        c \in stopHit /\ Running(c) /\ pc'[c] \notin {"idle", "awaitStop", "done"}
        => matches'[c] = matches[c] /\ events'[c] = events[c] ]_vars

\* C28: a stop() called while an earlier stop() still awaits the teardown of
\* a run that is in flight waits for the same pending stop promise: it does
\* not answer at once that no scan is running.
C28_SecondStopWaits ==
  [][ \A t \in StopIds :
        /\ stopPc[t] = "idle" /\ stopPc'[t] # "idle"
        /\ \E u \in StopIds \ {t} : stopPc[u] = "awaitStop"
        /\ \E c \in SearchIds : Running(c)
        => /\ stopPc'[t] = "awaitStop"
           /\ stopResult'[t].message # NoScanRunning
           /\ stopPromise' = stopPromise ]_vars

\* the run of call c has found as many distinct matches as maxResults allows
LimitReached(c) ==
  Running(c) /\ options[c].maxResults # 0 /\ Len(matches[c]) >= options[c].maxResults

\* C29: once the distinct-match count of a run has reached maxResults the run
\* issues no further page query and processes no further record, and it ends
\* successfully with matchesCount equal to maxResults, also when the host
\* has more pages.
C29_StopsAtMaxResults ==
  [][ \A c \in SearchIds :
        LimitReached(c) =>
          /\ pc[c] # "awaitQuery"
          /\ pc'[c] # "done" =>
               /\ queries'[c] = queries[c] /\ matches'[c] = matches[c]
               /\ processedRequestID'[c] = processedRequestID[c]
               /\ pc'[c] \in {"execAfter", "grepReturn"}
          /\ pc'[c] = "done" =>
               /\ result'[c].kind = "data" /\ result'[c].dataError = ""
               /\ result'[c].matchesCount = options[c].maxResults ]_vars

\* a run has reached its limit on the first page and is about to return its
\* count; the host has reported a next page
C29_Witness ==
  /\ pc[1] = "execAfter" /\ LimitReached(1)
  /\ Head(microtasks).n = options[1].maxResults
  /\ queries[1] = << 0 >> /\ HasNextPage(1)

\* number of pages the run of call c has processed at a loop head or loop end
PagesProcessed(c) == IF pc[c] = "awaitQuery" THEN Len(queries[c]) - 1 ELSE Len(queries[c])

\* C30: the matches events of a run announce every distinct match of the run
\* exactly once and in discovery order: between the steps of a run, and so at
\* every loop head and at its end, the sizes of the events sent (array
\* lengths and bare counts) add up to the size of the run's map; the k-th
\* event stands for the next slice of the map, and an array event carries
\* that slice; there is at most one event per page processed; the count a
\* completed loop returns is the sum of the sizes.
C30_EachMatchAnnouncedOnce ==
  \A c \in SearchIds :
    LET evs == events[c] IN
    /\ SentBy(evs, Len(evs)) = Len(matches[c])
    /\ pc[c] \in {"awaitQuery", "execAfter"} =>
      /\ \A k \in 1..Len(evs) :
           evs[k].array =>
             evs[k].items = SubSeq(matches[c], SentBy(evs, k - 1) + 1, SentBy(evs, k))
      /\ Len(evs) <= PagesProcessed(c)
      /\ pc[c] = "execAfter" =>
           \E i \in 1..Len(microtasks) :
             /\ microtasks[i].label = "execAfter" /\ microtasks[i].id = c
             /\ microtasks[i].n = SentBy(evs, Len(evs))

\* the loop of a run ends after three pages with one event for each page, the
\* first an array and the last a count
C30_Witness ==
  /\ pc[1] = "execAfter" /\ Len(events[1]) = 3 /\ Len(queries[1]) = 3
  /\ events[1][1].array /\ Len(events[1][1].items) > 1
  /\ ~events[1][3].array

\* C32: every match extractMatches returns, and so every MatchResult built
\* from it, satisfies 0 <= startIndex < endIndex <= length of the text, for
\* every text, pattern and group list.
C32_IndicesWithinText ==
  extraction.applied =>
    \A i \in 1..Len(extraction.out) :
      LET m == extraction.out[i] IN
      /\ 0 <= m.startIndex /\ m.startIndex < m.endIndex
      /\ m.endIndex <= Len(extraction.text)

\* text.slice(startIndex, endIndex), as the match viewer takes it
Slice(text, startIndex, endIndex) == SubSeq(text, startIndex + 1, endIndex)

\* C35: for every match extractMatches returns, the substring of the text
\* from startIndex to endIndex is the value returned, so the range the match
\* viewer highlights shows the extracted text.
C35_SliceIsValue ==
  extraction.applied =>
    \A i \in 1..Len(extraction.out) :
      LET m == extraction.out[i]
      IN Slice(extraction.text, m.startIndex, m.endIndex) = m.value

PrintableAscii(v) == \A i \in 1..Len(v) : v[i] >= 32 /\ v[i] <= 126

DelScript == "return '\\x7f';"

\* C36 as stated: with cleanupOutput set, every value a run holds (map, store,
\* matches events) is printable ASCII only, whatever the transform script.
C36_HeldValuesPrintable ==
  (pc[1] # "idle" /\ options[1].cleanupOutput) =>
    \A e \in Held(1) : PrintableAscii(e.value)

\* C36: with cleanupOutput set and no transform script, every value a run
\* holds (map, store, matches events) is printable ASCII only; with a
\* transform script, every held value is the trimmed result of the script for
\* a trimmed extracted value that is printable ASCII only (the test is made
\* before the script runs, the script's result is not tested).
C36_PrintableBeforeTransform ==
  (pc[1] # "idle" /\ options[1].cleanupOutput) =>
    \A e \in Held(1) :
      IF options[1].transformScript = NoScript
        THEN PrintableAscii(e.value)
        ELSE \E em \in Origins(e, pattern[1], options[1]) :
               LET t == applyTransform(Trim(em.value), options[1].transformScript)
               IN /\ PrintableAscii(Trim(em.value))
                  /\ ~t.isNull /\ e.value = Trim(t.value)

\* a run with cleanupOutput and the script returning DEL has put the value DEL
\* into the store and into a matches event
C36_Witness ==
  /\ pc[1] # "idle" /\ options[1].cleanupOutput
  /\ options[1].transformScript = DelScript
  /\ \E i \in 1..Len(grepStore) : grepStore[i].value = << 127 >>
  /\ \E k \in 1..Len(events[1]) : \E i \in 1..Len(events[1][k].items) :
       events[1][k].items[i].value = << 127 >>

\* C34: while a single run is in progress the Result Store and the run's map
\* hold the same entries in the same order; when the run ends with a count,
\* the store holds exactly that many entries, those of the map, and every
\* array the run's matches events carried is the matching slice of the store;
\* outside a run the store does not change, and downloadResults() returns
\* the store's entries in order (an error, which carries no entry, for an
\* empty store).
C34_StoreMirrorsRunMap ==
  [][ /\ Running(1)' => grepStore' = matches'[1]
      /\ Terminates(1) /\ result'[1].matchesCount >= 0 =>
           LET evs == events[1] IN
           /\ Len(grepStore') = result'[1].matchesCount
           /\ grepStore' = matches[1]
           /\ SentBy(evs, Len(evs)) = Len(grepStore')
           /\ \A k \in 1..Len(evs) :
                evs[k].array =>
                  evs[k].items = SubSeq(grepStore', SentBy(evs, k - 1) + 1, SentBy(evs, k))
      /\ ~Running(1) /\ ~Running(1)' => grepStore' = grepStore
      /\ downloadResult' # NoDownload => downloadResult'.data = grepStore' ]_vars

\* downloadResults() is being answered, no run being under way, with the two
\* matches the last run left in the store
C34_Witness ==
  /\ ~Running(1) /\ pc[1] = "idle"
  /\ downloadResult.kind = "data" /\ Len(downloadResult.data) = 2
  /\ downloadResult.data = grepStore

\* the operands of an AND chain: the pieces between the separators " and "
RECURSIVE Operands(_)
Operands(pieces) ==
  IF \A i \in 1..Len(pieces) : pieces[i] # Lit(" and ") THEN << pieces >>
  ELSE LET k == CHOOSE i \in 1..Len(pieces) :
                  /\ pieces[i] = Lit(" and ")
                  /\ \A j \in 1..(i - 1) : pieces[j] # Lit(" and ")
       IN << SubSeq(pieces, 1, k - 1) >> \o Operands(SubSeq(pieces, k + 1, Len(pieces)))

\* the source with every backslash and every quote preceded by a backslash
RECURSIVE Escaped(_)
Escaped(source) ==
  IF source = << >> THEN << >>
  ELSE (IF Head(source) \in {34, 92} THEN << 92 >> ELSE << >>)
         \o << Head(source) >> \o Escaped(Tail(source))

RawTerm(field, source) == << Lit(field), Units(Escaped(source)), Lit("\"") >>

\* the OR of exactly the terms the two switches enable, in parentheses
EnabledTerms(f) ==
  << Lit("(") >>
  \o (IF f.includeRequests THEN RawTerm("req.raw.regex:\"", f.source) ELSE << >>)
  \o (IF f.includeRequests /\ f.includeResponses THEN << Lit(" or ") >> ELSE << >>)
  \o (IF f.includeResponses THEN RawTerm("resp.raw.regex:\"", f.source) ELSE << >>)
  \o << Lit(")") >>

SizeBounds == { << Lit("resp.len.lt:10485760") >>, << Lit("resp.len.lt:104857600") >> }

\* C33: for every combination of options buildRegexFilter returns one AND
\* chain in which every operand is non-empty: the custom filter first if
\* there is one, then the OR of exactly the request and response terms the
\* options enable, then the one response-size bound (10485760 with
\* skipLargeResponses, else 104857600), and no other size bound; also when
\* neither includeRequests nor includeResponses is set.
C33_FilterIsAndChain ==
  filterCall.applied =>
    LET ops == Operands(filterCall.out)
        c == IF Truthy(filterCall.customHTTPQL) THEN 1 ELSE 0
        any == filterCall.includeRequests \/ filterCall.includeResponses
        t == IF any THEN 1 ELSE 0
    IN /\ \A i \in 1..Len(ops) : ops[i] # << >>
       /\ c = 1 => ops[1] = << Custom(filterCall.customHTTPQL.text) >>
       /\ any => ops[c + 1] = EnabledTerms(filterCall)
       /\ ops[c + t + 1] = (IF filterCall.skipLargeResponses
                               THEN << Lit("resp.len.lt:10485760") >>
                               ELSE << Lit("resp.len.lt:104857600") >>)
       /\ Cardinality({i \in 1..Len(ops) : ops[i] \in SizeBounds}) = 1

\* C31: the promise executeQueryWithCancellationCheck returns settles once:
\* once settled, its outcome and value never change, whatever the operation
\* or the interval do later; once the operation has settled the interval
\* callback does not run, so the poll never rejects; and whenever the promise
\* has settled the interval is cleared and its callback never runs again.
C31_SettlesOnceTimerCleared ==
  [][ /\ wrapper.outcome # "pending" =>
           /\ wrapper'.outcome = wrapper.outcome /\ wrapper'.value = wrapper.value
           /\ wrapper.timer = "cleared" /\ wrapper'.timer = "cleared"
           /\ wrapper'.ticks = wrapper.ticks
      /\ wrapper.operation # "pending" =>
           /\ wrapper'.ticks = wrapper.ticks
           /\ \/ wrapper.outcome = wrapper.operation
                 /\ wrapper.value = wrapper.operationValue
              \/ wrapper.outcome = "rejected" /\ wrapper.value = Stopped
      /\ wrapper'.outcome # "pending" => wrapper'.timer = "cleared" ]_vars

\* the poll has rejected the promise with the stopped error, the run flag has
\* been set again, and the operation has then settled with a page: reject and
\* resolve have both been called, the caller has the stopped error
C31_Witness ==
  /\ wrapper.outcome = "rejected" /\ wrapper.value = Stopped
  /\ wrapper.operation = "fulfilled" /\ wrapper.operationValue = "page 2"
  /\ wrapper.calls = 2 /\ wrapper.active /\ wrapper.delivered
  /\ wrapper.timer = "cleared" /\ wrapper.ticks < MaxTicks

\* C37: in the batch search at most one search is in flight and a search
\* starts only when the one before has returned; no search is started once
\* cancelSearch() has aborted the batch; and a batch that has finished without
\* being cancelled has patternsCompleted equal to totalPatterns and progress
\* 100, whatever patterns were invalid and whatever searches failed.
C37_BatchCompletesAllPatterns ==
  [][ /\ batch'.inFlight <= 1
      /\ Len(batch'.started) <= Len(batch.started) + 1
      /\ batch.aborted /\ batch.isSearching => batch'.started = batch.started
      /\ batch'.phase = "finished" /\ ~batch'.cancelled =>
           /\ batch'.patternsCompleted = batch'.totalPatterns
           /\ BatchProgress(batch') = 100 ]_vars
====
